---- MODULE Spec2Model ----
(***************************************************************************)
(* A model of apmcc: the definition validator (validation.py), the         *)
(* document model (models/game_definition.py) and the artifact generators  *)
(* (generators/*.py).                                                      *)
(*                                                                         *)
(* Python values are tagged records: a raw document is a value of unknown  *)
(* shape, and the validator probes it with isinstance(), `in` and .get().  *)
(* Strings are sequences of one-character strings, so that str.strip(),    *)
(* re.sub() and str.replace() are computed character by character.         *)
(***************************************************************************)
EXTENDS Integers, Sequences, FiniteSets, TLC

VARIABLES
    doc,              \* validate_definition: the raw document (its argument)
    pc,               \* validate_definition: the position in the function
    i,                \* index of the chapter / category being walked (0-based)
    j,                \* index of the challenge / item being walked (0-based)
    goal_challenges,  \* validation.py:46
    stdout,           \* what was printed on stdout, in order
    stderr,           \* what was printed on stderr, in order
    exit_code,        \* -1: still running or returned; 1: sys.exit(1)
    evaluated,        \* the positions of the function reached, in order
    game,             \* the GameDefinition (None before it is built)
    gpc,              \* create_apworld: how many generators have run
    locations,        \* LocationsGenerator.generate()["locations"]
    items,            \* ItemsGenerator.generate()["items"]
    regions,          \* RegionsGenerator.generate()["regions"]
    raw_name,         \* a name, as a string of characters
    sanitized,        \* BaseGenerator._sanitize_name(raw_name)
    resanitized,      \* BaseGenerator._sanitize_name(sanitized)
    suggested,        \* ApworldPackager.get_suggested_output_name() for raw_name
    op,               \* the fetch operation that runs: its method name, or None
    attempt,          \* the loop variable of `for attempt in range(MAX_RETRIES)`
    fpc,              \* the position in the fetch operation
    fetch_log,        \* the requests, prints and sleeps of the operation, in order
    fetch_result,     \* what the operation returned (None before it returns)
    dest_file,        \* download_file: the chunks in the destination file, or Absent
    base_apworld,     \* the base archive: the content of each file, by path
    ppc,              \* create_apworld: the position in the method
    base_extracted,   \* the files of <temp>/base, by path relative to it
    overrides_dir,    \* the files of <temp>/overrides, by relative path
    final_dir,        \* the files of <temp>/final, by relative path
    output_apworld,   \* the archive at output_path, or Absent
    dpc,              \* download_base_apworld: the position in the method
    force_download,   \* download_base_apworld: its argument
    ncalls            \* the calls of download_base_apworld so far

vars == <<doc, pc, i, j, goal_challenges, stdout, stderr, exit_code, evaluated,
          game, gpc, locations, items, regions,
          raw_name, sanitized, resanitized, suggested,
          op, attempt, fpc, fetch_log, fetch_result, dest_file,
          base_apworld, ppc, base_extracted, overrides_dir, final_dir,
          output_apworld, dpc, force_download, ncalls>>

valVars == <<doc, pc, i, j, goal_challenges, stdout, stderr, exit_code, evaluated>>
genVars == <<gpc, locations, items, regions>>
sanVars == <<raw_name, sanitized, resanitized, suggested>>
\* the variables of the other operations
fetchVars == <<op, attempt, fpc, fetch_log, fetch_result, dest_file>>
packVars == <<base_apworld, ppc, base_extracted, overrides_dir, final_dir,
              output_apworld>>
cacheVars == <<dpc, force_download, ncalls>>
auxVars == <<sanVars, fetchVars, packVars, cacheVars>>

--------------------------------------------------------------------------
(* Python values *)

Str(s) == [t |-> "str", s |-> s]
PyInt(n) == [t |-> "int", n |-> n]
\* a float, held in tenths: Float(10) is 1.0
Float(n10) == [t |-> "float", n10 |-> n10]
Bool(b) == [t |-> "bool", b |-> b]
None == [t |-> "none"]
List(xs) == [t |-> "list", items |-> xs]
\* a dict keeps insertion order: a sequence of [k, v] entries with distinct keys
Dict(kv) == [t |-> "dict", kv |-> kv]
KV(k, v) == [k |-> Str(k), v |-> v]

\* isinstance(v, str), isinstance(v, list), isinstance(v, dict), isinstance(v, bool)
IsStr(v) == v.t = "str"
IsList(v) == v.t = "list"
IsDict(v) == v.t = "dict"
IsBool(v) == v.t = "bool"
\* isinstance(v, (int, float)): bool is a subclass of int
IsIntOrFloat(v) == v.t \in {"int", "float", "bool"}

\* the value of a number in tenths (True is 1, False is 0)
Tenths(v) ==
    IF v.t = "int" THEN 10 * v.n
    ELSE IF v.t = "float" THEN v.n10
    ELSE IF v.b THEN 10 ELSE 0

\* `key in d` for a dict d and a str key
HasKey(d, key) == \E p \in 1..Len(d.kv) : d.kv[p].k.t = "str" /\ d.kv[p].k.s = key
\* d[key]
Get(d, key) ==
    d.kv[CHOOSE p \in 1..Len(d.kv) : d.kv[p].k.t = "str" /\ d.kv[p].k.s = key].v
\* d.get(key, default)
GetOr(d, key, default) == IF HasKey(d, key) THEN Get(d, key) ELSE default

\* bool(v)
Truthy(v) ==
    CASE v.t = "bool" -> v.b
      [] v.t = "int" -> v.n # 0
      [] v.t = "float" -> v.n10 # 0
      [] v.t = "str" -> v.s # <<>>
      [] v.t = "list" -> v.items # <<>>
      [] v.t = "dict" -> v.kv # <<>>
      [] OTHER -> FALSE

--------------------------------------------------------------------------
(* Python strings *)

\* str.isspace() of one character
IsSpace(c) == c \in {" ", "\t", "\n"}
Letters == {"a", "b", "c", "d", "e", "f", "g", "h", "i", "j", "k", "l", "m",
            "n", "o", "p", "q", "r", "s", "t", "u", "v", "w", "x", "y", "z",
            "A", "B", "C", "D", "E", "F", "G", "H", "I", "J", "K", "L", "M",
            "N", "O", "P", "Q", "R", "S", "T", "U", "V", "W", "X", "Y", "Z"}
Digits == {"0", "1", "2", "3", "4", "5", "6", "7", "8", "9"}
\* what \w matches: letters, digits and the underscore
WordChars == Letters \cup Digits \cup {"_"}
IsWord(c) == c \in WordChars

RECURSIVE LStrip(_)
LStrip(s) == IF s # <<>> /\ IsSpace(Head(s)) THEN LStrip(Tail(s)) ELSE s
RECURSIVE RStrip(_)
RStrip(s) ==
    IF s # <<>> /\ IsSpace(s[Len(s)]) THEN RStrip(SubSeq(s, 1, Len(s) - 1)) ELSE s
\* str.strip()
Strip(s) == RStrip(LStrip(s))

\* `not isinstance(v, str) or not v.strip()`
NotNonEmptyStr(v) == ~IsStr(v) \/ Strip(v.s) = <<>>

K_name == <<"n", "a", "m", "e">>
K_progression_items == <<"p", "r", "o", "g", "r", "e", "s", "s", "i", "o", "n", "_",
                         "i", "t", "e", "m", "s">>
K_chapters == <<"c", "h", "a", "p", "t", "e", "r", "s">>
K_challenges == <<"c", "h", "a", "l", "l", "e", "n", "g", "e", "s">>
K_goal == <<"g", "o", "a", "l">>
K_excluded == <<"e", "x", "c", "l", "u", "d", "e", "d">>
K_priority == <<"p", "r", "i", "o", "r", "i", "t", "y">>
K_filler_item_categories == <<"f", "i", "l", "l", "e", "r", "_", "i", "t", "e", "m", "_",
                              "c", "a", "t", "e", "g", "o", "r", "i", "e", "s">>
K_weight == <<"w", "e", "i", "g", "h", "t">>
K_include_confirmation_locations ==
    <<"i", "n", "c", "l", "u", "d", "e", "_", "c", "o", "n", "f", "i", "r", "m", "a", "t",
      "i", "o", "n", "_", "l", "o", "c", "a", "t", "i", "o", "n", "s">>
K_items == <<"i", "t", "e", "m", "s">>
K_description == <<"d", "e", "s", "c", "r", "i", "p", "t", "i", "o", "n">>

--------------------------------------------------------------------------
(* validate_definition: the checks, each giving the message it prints or   *)
(* NoError.  A message is [rule, a, b, x]: the rule broken, the 1-based    *)
(* numbers the message shows, and the values it interpolates.              *)

Err(rule, a, b, x) == [rule |-> rule, a |-> a, b |-> b, x |-> x]
NoError == Err("ok", 0, 0, None)
NoGoalWarning == "Warning: No challenges marked as 'goal'"

required_fields == <<K_name, K_progression_items, K_chapters>>
valid_flags == {K_goal, K_excluded, K_priority}

\* validation.py:12  [field for field in required_fields if field not in definition]
missing_fields(definition) == SelectSeq(required_fields, LAMBDA f : ~HasKey(definition, f))

StrList(ss) == List([p \in 1..Len(ss) |-> Str(ss[p])])

\* a validator that reports the first missing key alone
RequiredFieldsError_FirstOnly(definition) ==
    IF missing_fields(definition) # <<>>
    THEN Err("missing_fields", 0, 0, StrList(<<Head(missing_fields(definition))>>))
    ELSE NoError

\* validation.py:11-16
RequiredFieldsError(definition) ==
    IF missing_fields(definition) # <<>>
    THEN Err("missing_fields", 0, 0, StrList(missing_fields(definition)))
    ELSE NoError

\* validation.py:19-21
NameError(definition) ==
    IF NotNonEmptyStr(Get(definition, K_name))
    THEN Err("name_not_nonempty_str", 0, 0, None)
    ELSE NoError

\* validation.py:24-35
ProgressionItemsError(definition) ==
    LET pi == GetOr(definition, K_progression_items, None) IN
    IF ~IsList(pi) THEN Err("progression_items_not_list", 0, 0, None)
    ELSE IF ~Truthy(pi) THEN Err("progression_items_empty", 0, 0, None)
    ELSE IF \E p \in 1..Len(pi.items) : NotNonEmptyStr(pi.items[p])
    THEN Err("progression_item_not_nonempty_str", 0, 0, None)
    ELSE NoError

\* validation.py:38-44
ChaptersError(definition) ==
    LET chs == GetOr(definition, K_chapters, None) IN
    IF ~IsList(chs) THEN Err("chapters_not_list", 0, 0, None)
    ELSE IF ~Truthy(chs) THEN Err("chapters_empty", 0, 0, None)
    ELSE NoError

\* a validator that looks at a chapter's challenges before its name
ChapterError_ChallengesFirst(chapter, ci) ==
    IF ~IsDict(chapter) THEN Err("chapter_not_dict", ci + 1, 0, None)
    ELSE IF ~HasKey(chapter, K_challenges)
    THEN Err("chapter_missing_challenges", ci + 1, 0, None)
    ELSE IF ~IsList(Get(chapter, K_challenges))
    THEN Err("chapter_challenges_not_list", ci + 1, 0, None)
    ELSE IF ~Truthy(Get(chapter, K_challenges))
    THEN Err("chapter_no_challenge", ci + 1, 0, None)
    ELSE IF ~HasKey(chapter, K_name) THEN Err("chapter_missing_name", ci + 1, 0, None)
    ELSE IF NotNonEmptyStr(Get(chapter, K_name))
    THEN Err("chapter_name_not_nonempty_str", ci + 1, 0, None)
    ELSE NoError

\* validation.py:49-71, for the chapter at 0-based index ci
ChapterError(chapter, ci) ==
    IF ~IsDict(chapter) THEN Err("chapter_not_dict", ci + 1, 0, None)
    ELSE IF ~HasKey(chapter, K_name) THEN Err("chapter_missing_name", ci + 1, 0, None)
    ELSE IF NotNonEmptyStr(Get(chapter, K_name))
    THEN Err("chapter_name_not_nonempty_str", ci + 1, 0, None)
    ELSE IF ~HasKey(chapter, K_challenges)
    THEN Err("chapter_missing_challenges", ci + 1, 0, None)
    ELSE IF ~IsList(Get(chapter, K_challenges))
    THEN Err("chapter_challenges_not_list", ci + 1, 0, None)
    ELSE IF ~Truthy(Get(chapter, K_challenges))
    THEN Err("chapter_no_challenge", ci + 1, 0, None)
    ELSE NoError

\* `flag != 'name' and flag not in valid_flags` for a key of a challenge
InvalidFlag(flag) == ~(flag.t = "str" /\ flag.s = K_name)
                     /\ ~(flag.t = "str" /\ flag.s \in valid_flags)
\* `flag in valid_flags and not isinstance(challenge[flag], bool)`
NonBoolFlag(entry) == entry.k.t = "str" /\ entry.k.s \in valid_flags /\ ~IsBool(entry.v)

\* validation.py:89-96: the loop over the keys of a challenge, in the dict's order
FlagError(challenge) ==
    LET bad == {p \in 1..Len(challenge.kv) :
                    InvalidFlag(challenge.kv[p].k) \/ NonBoolFlag(challenge.kv[p])} IN
    IF bad = {} THEN NoError
    ELSE LET p == CHOOSE q \in bad : \A r \in bad : q <= r
             e == challenge.kv[p] IN
         IF InvalidFlag(e.k)
         THEN Err("challenge_invalid_flag", 0, 0, List(<<Get(challenge, K_name), e.k>>))
         ELSE Err("challenge_flag_not_bool", 0, 0, List(<<Get(challenge, K_name), e.k>>))

\* validation.py:75-96, for the challenge at 0-based index cj of chapter ci
ChallengeError(challenge, ci, cj) ==
    IF ~IsDict(challenge) THEN Err("challenge_not_dict", ci + 1, cj + 1, None)
    ELSE IF ~HasKey(challenge, K_name)
    THEN Err("challenge_missing_name", ci + 1, cj + 1, None)
    ELSE IF NotNonEmptyStr(Get(challenge, K_name))
    THEN Err("challenge_name_not_nonempty_str", ci + 1, cj + 1, None)
    ELSE FlagError(challenge)

\* validation.py:107-109
FillerCategoriesError(definition) ==
    IF ~IsDict(Get(definition, K_filler_item_categories))
    THEN Err("filler_item_categories_not_dict", 0, 0, None)
    ELSE NoError

\* `not isinstance(w, (int, float)) or w <= 0`   validation.py:118, 158
NotPositiveNumber(w) == ~IsIntOrFloat(w) \/ Tenths(w) <= 0

\* validation.py:112-139, for the category under key category_name
CategoryError(category_name, category) ==
    IF ~IsDict(category) THEN Err("category_not_dict", 0, 0, category_name)
    ELSE IF HasKey(category, K_weight) /\ NotPositiveNumber(Get(category, K_weight))
    THEN Err("category_weight_not_positive", 0, 0, category_name)
    ELSE IF HasKey(category, K_include_confirmation_locations)
            /\ ~IsBool(Get(category, K_include_confirmation_locations))
    THEN Err("category_include_confirmation_locations_not_bool", 0, 0, category_name)
    ELSE IF ~HasKey(category, K_items) THEN Err("category_missing_items", 0, 0, category_name)
    ELSE IF ~IsList(Get(category, K_items))
    THEN Err("category_items_not_list", 0, 0, category_name)
    ELSE IF ~Truthy(Get(category, K_items))
    THEN Err("category_no_item", 0, 0, category_name)
    ELSE NoError

\* validation.py:142-163, for the item at 0-based index k of the category
ItemError(item, k, category_name) ==
    IF IsStr(item)
    THEN IF Strip(item.s) = <<>> THEN Err("item_empty", k + 1, 0, category_name)
         ELSE NoError
    ELSE IF IsDict(item)
    THEN IF ~HasKey(item, K_name) THEN Err("item_missing_name", k + 1, 0, category_name)
         ELSE IF NotNonEmptyStr(Get(item, K_name))
         THEN Err("item_name_not_nonempty_str", k + 1, 0, category_name)
         ELSE IF HasKey(item, K_weight) /\ NotPositiveNumber(Get(item, K_weight))
         THEN Err("item_weight_not_positive", 0, 0, List(<<Get(item, K_name), category_name>>))
         ELSE NoError
    ELSE Err("item_not_str_or_dict", k + 1, 0, category_name)

--------------------------------------------------------------------------
(* validate_definition: the walk.  pc is the check the function is about   *)
(* to make; every action appends its own position to `evaluated`.          *)

At(label, a, b) == [at |-> label, a |-> a, b |-> b]

\* print(..., file=sys.stderr); sys.exit(1)
Exit(e) ==
    /\ stderr' = Append(stderr, e)
    /\ exit_code' = 1
    /\ pc' = "exit"

\* the check found nothing: go on to the check `next`
Pass(next) ==
    /\ pc' = next
    /\ UNCHANGED <<stderr, exit_code>>

chapters_of(definition) == Get(definition, K_chapters).items
categories_of(definition) == Get(definition, K_filler_item_categories).kv

\* validation.py:10-16
CheckRequiredFields ==
    /\ pc = "required_fields"
    /\ evaluated' = Append(evaluated, At("required_fields", 0, 0))
    /\ IF RequiredFieldsError(doc) # NoError
       THEN Exit(RequiredFieldsError(doc))
       ELSE Pass("name")
    /\ UNCHANGED <<doc, i, j, goal_challenges, stdout, game, genVars, auxVars>>

\* validation.py:18-21
CheckName ==
    /\ pc = "name"
    /\ evaluated' = Append(evaluated, At("name", 0, 0))
    /\ IF NameError(doc) # NoError THEN Exit(NameError(doc)) ELSE Pass("progression_items")
    /\ UNCHANGED <<doc, i, j, goal_challenges, stdout, game, genVars, auxVars>>

\* validation.py:23-35
CheckProgressionItems ==
    /\ pc = "progression_items"
    /\ evaluated' = Append(evaluated, At("progression_items", 0, 0))
    /\ IF ProgressionItemsError(doc) # NoError
       THEN Exit(ProgressionItemsError(doc))
       ELSE Pass("chapters")
    /\ UNCHANGED <<doc, i, j, goal_challenges, stdout, game, genVars, auxVars>>

\* validation.py:37-48: the checks of the list, then goal_challenges = 0 and the
\* loop starts at the first chapter
CheckChapters ==
    /\ pc = "chapters"
    /\ evaluated' = Append(evaluated, At("chapters", 0, 0))
    /\ IF ChaptersError(doc) # NoError
       THEN Exit(ChaptersError(doc)) /\ UNCHANGED <<i, j, goal_challenges>>
       ELSE Pass("chapter") /\ goal_challenges' = 0 /\ i' = 0 /\ j' = 0
    /\ UNCHANGED <<doc, stdout, game, genVars, auxVars>>

\* validation.py:48-71: the checks of chapter i; its challenges list is then
\* not empty, and the inner loop starts at its first challenge
CheckChapter ==
    /\ pc = "chapter"
    /\ evaluated' = Append(evaluated, At("chapter", i, 0))
    /\ IF ChapterError(chapters_of(doc)[i + 1], i) # NoError
       THEN Exit(ChapterError(chapters_of(doc)[i + 1], i)) /\ UNCHANGED j
       ELSE Pass("challenge") /\ j' = 0
    /\ UNCHANGED <<doc, i, goal_challenges, stdout, game, genVars, auxVars>>

\* validation.py:74-99: the checks of challenge j of chapter i, the count of the
\* goal challenges, and the step of the two loops
CheckChallenge ==
    LET challenges == Get(chapters_of(doc)[i + 1], K_challenges).items
        challenge == challenges[j + 1] IN
    /\ pc = "challenge"
    /\ evaluated' = Append(evaluated, At("challenge", i, j))
    /\ IF ChallengeError(challenge, i, j) # NoError
       THEN Exit(ChallengeError(challenge, i, j)) /\ UNCHANGED <<i, j, goal_challenges>>
       ELSE /\ goal_challenges' = IF Truthy(GetOr(challenge, K_goal, Bool(FALSE)))
                                  THEN goal_challenges + 1
                                  ELSE goal_challenges
            /\ IF j + 1 < Len(challenges)
               THEN Pass("challenge") /\ j' = j + 1 /\ i' = i
               ELSE IF i + 1 < Len(chapters_of(doc))
               THEN Pass("chapter") /\ i' = i + 1 /\ j' = 0
               ELSE Pass("goal_warning") /\ UNCHANGED <<i, j>>
    /\ UNCHANGED <<doc, stdout, game, genVars, auxVars>>

\* a validator for which a document with no goal challenge is an error
CheckGoal_Fatal ==
    /\ pc = "goal_warning"
    /\ evaluated' = Append(evaluated, At("goal_warning", 0, 0))
    /\ IF goal_challenges = 0
       THEN Exit(Err("no_goal", 0, 0, None))
       ELSE Pass("filler_item_categories")
    /\ UNCHANGED <<doc, i, j, goal_challenges, stdout, game, genVars, auxVars>>

\* validation.py:101-102
CheckGoal ==
    /\ pc = "goal_warning"
    /\ evaluated' = Append(evaluated, At("goal_warning", 0, 0))
    /\ stdout' = IF goal_challenges = 0 THEN Append(stdout, NoGoalWarning) ELSE stdout
    /\ Pass("filler_item_categories")
    /\ UNCHANGED <<doc, i, j, goal_challenges, game, genVars, auxVars>>

\* validation.py:104-111: the optional key, its type, and the start of the loop
\* over the categories; the function returns here when there is none
CheckFillerCategories ==
    /\ pc = "filler_item_categories"
    /\ evaluated' = Append(evaluated, At("filler_item_categories", 0, 0))
    /\ IF ~HasKey(doc, K_filler_item_categories)
       THEN Pass("returned") /\ UNCHANGED <<i, j>>
       ELSE IF FillerCategoriesError(doc) # NoError
       THEN Exit(FillerCategoriesError(doc)) /\ UNCHANGED <<i, j>>
       ELSE IF categories_of(doc) = <<>>
       THEN Pass("returned") /\ UNCHANGED <<i, j>>
       ELSE Pass("category") /\ i' = 0 /\ j' = 0
    /\ UNCHANGED <<doc, goal_challenges, stdout, game, genVars, auxVars>>

\* validation.py:111-139: the checks of category i; its items list is then not empty
CheckCategory ==
    LET entry == categories_of(doc)[i + 1] IN
    /\ pc = "category"
    /\ evaluated' = Append(evaluated, At("category", i, 0))
    /\ IF CategoryError(entry.k, entry.v) # NoError
       THEN Exit(CategoryError(entry.k, entry.v)) /\ UNCHANGED j
       ELSE Pass("item") /\ j' = 0
    /\ UNCHANGED <<doc, i, goal_challenges, stdout, game, genVars, auxVars>>

\* validation.py:141-163: the checks of item j of category i and the step of the
\* two loops; the function returns after the last item of the last category
CheckItem ==
    LET entry == categories_of(doc)[i + 1]
        its == Get(entry.v, K_items).items IN
    /\ pc = "item"
    /\ evaluated' = Append(evaluated, At("item", i, j))
    /\ IF ItemError(its[j + 1], j, entry.k) # NoError
       THEN Exit(ItemError(its[j + 1], j, entry.k)) /\ UNCHANGED <<i, j>>
       ELSE IF j + 1 < Len(its)
       THEN Pass("item") /\ j' = j + 1 /\ i' = i
       ELSE IF i + 1 < Len(categories_of(doc))
       THEN Pass("category") /\ i' = i + 1 /\ j' = 0
       ELSE Pass("returned") /\ UNCHANGED <<i, j>>
    /\ UNCHANGED <<doc, goal_challenges, stdout, game, genVars, auxVars>>

--------------------------------------------------------------------------
(* models/game_definition.py: the dataclasses are records, their lists     *)
(* sequences; the fields hold the raw values unconverted, as in the code.  *)

\* Challenge.from_dict
Challenge_from_dict(data) ==
    [name |-> Get(data, K_name),
     goal |-> GetOr(data, K_goal, Bool(FALSE)),
     excluded |-> GetOr(data, K_excluded, Bool(FALSE)),
     priority |-> GetOr(data, K_priority, Bool(FALSE))]

\* a Chapter.from_dict that keeps the first challenge alone
Chapter_from_dict_FirstOnly(data) ==
    LET raw == GetOr(data, K_challenges, List(<<>>)).items IN
    [name |-> Get(data, K_name),
     challenges |-> [p \in 1..(IF raw = <<>> THEN 0 ELSE 1) |-> Challenge_from_dict(raw[p])]]

\* Chapter.from_dict
Chapter_from_dict(data) ==
    LET raw == GetOr(data, K_challenges, List(<<>>)).items IN
    [name |-> Get(data, K_name),
     challenges |-> [p \in 1..Len(raw) |-> Challenge_from_dict(raw[p])]]

\* FillerItem.from_data
FillerItem_from_data(data) ==
    IF IsStr(data) THEN [name |-> data, weight |-> Float(10)]
    ELSE [name |-> Get(data, K_name), weight |-> GetOr(data, K_weight, Float(10))]

\* FillerItemCategory.from_dict
FillerItemCategory_from_dict(name, data) ==
    LET raw == GetOr(data, K_items, List(<<>>)).items IN
    [name |-> name,
     weight |-> GetOr(data, K_weight, Float(10)),
     include_confirmation_locations |->
         GetOr(data, K_include_confirmation_locations, Bool(FALSE)),
     items |-> [p \in 1..Len(raw) |-> FillerItem_from_data(raw[p])]]

\* GameDefinition.from_dict
GameDefinition_from_dict(data) ==
    LET chs == GetOr(data, K_chapters, List(<<>>)).items
        cats == IF HasKey(data, K_filler_item_categories)
                THEN Get(data, K_filler_item_categories).kv
                ELSE <<>> IN
    [name |-> Get(data, K_name),
     progression_items |-> GetOr(data, K_progression_items, List(<<>>)).items,
     chapters |-> [p \in 1..Len(chs) |-> Chapter_from_dict(chs[p])],
     description |-> GetOr(data, K_description, None),
     filler_item_categories |->
         [p \in 1..Len(cats) |-> FillerItemCategory_from_dict(cats[p].k, cats[p].v)]]

\* sum(len(x) for x in xs), for a sequence of sequences
RECURSIVE SumLen(_)
SumLen(xs) == IF xs = <<>> THEN 0 ELSE Len(Head(xs)) + SumLen(Tail(xs))

\* the concatenation of a sequence of sequences (list.extend in a loop)
RECURSIVE Flatten(_)
Flatten(xs) == IF xs = <<>> THEN <<>> ELSE Head(xs) \o Flatten(Tail(xs))

\* GameDefinition.total_challenges
total_challenges(g) == SumLen([c \in 1..Len(g.chapters) |-> g.chapters[c].challenges])

\* GameDefinition.all_filler_items
all_filler_items(g) ==
    Flatten([c \in 1..Len(g.filler_item_categories) |-> g.filler_item_categories[c].items])

\* the caller of validate_definition builds the model from an accepted document
FromDict ==
    /\ pc = "returned"
    /\ game = None
    /\ game' = GameDefinition_from_dict(doc)
    /\ UNCHANGED <<valVars, genVars, auxVars>>

--------------------------------------------------------------------------
(* generators/*.py.  An artifact entry is a record; Absent marks a key the *)
(* entry does not have.                                                    *)

Absent == [t |-> "absent"]

S_Menu == <<"M", "e", "n", "u">>
S_Confirmation_Locations == <<"C", "o", "n", "f", "i", "r", "m", "a", "t", "i", "o", "n",
                              "_", "L", "o", "c", "a", "t", "i", "o", "n", "s">>
S_Received == <<"R", "e", "c", "e", "i", "v", "e", "d", " ">>
S_Filler == <<"F", "i", "l", "l", "e", "r">>
S_progression == <<"p", "r", "o", "g", "r", "e", "s", "s", "i", "o", "n">>
S_filler == <<"f", "i", "l", "l", "e", "r">>
S_confirmation == <<"c", "o", "n", "f", "i", "r", "m", "a", "t", "i", "o", "n">>

\* re.sub(r'[^\w\s-]', '', name)
RECURSIVE RemoveSpecial(_)
RemoveSpecial(s) ==
    IF s = <<>> THEN <<>>
    ELSE IF IsWord(Head(s)) \/ IsSpace(Head(s)) \/ Head(s) = "-"
    THEN <<Head(s)>> \o RemoveSpecial(Tail(s))
    ELSE RemoveSpecial(Tail(s))

\* s.replace(' ', '_')
ReplaceSpaces(s) == [p \in 1..Len(s) |-> IF s[p] = " " THEN "_" ELSE s[p]]

\* BaseGenerator._sanitize_name
sanitize_name(name) == ReplaceSpaces(Strip(RemoveSpecial(name)))

\* BaseGenerator._get_location_id
Base_get_location_id(chapter_index, challenge_index) ==
    1000000 + (chapter_index + 1) * 100 + challenge_index

\* a generator without the override for the confirmation locations
get_location_id_NoOverride(chapter_index, challenge_index) ==
    Base_get_location_id(chapter_index, challenge_index)

\* LocationsGenerator._get_location_id
get_location_id(chapter_index, challenge_index) ==
    IF chapter_index = 999 THEN 3000000 + challenge_index
    ELSE Base_get_location_id(chapter_index, challenge_index)

\* BaseGenerator._get_item_id
get_item_id(item_index) == 2000000 + item_index

\* f"{chapter.name}: {challenge.name}"
LocationName(chapter, challenge) == Str(chapter.name.s \o <<":", " ">> \o challenge.name.s)
\* f"Received {item.name}"
ConfirmationName(item) == Str(S_Received \o item.name.s)

\* a category that checks the flags in the order priority, excluded, goal
ChallengeCategory_PriorityFirst(challenge) ==
    IF Truthy(challenge.priority) THEN List(<<Str(K_priority)>>)
    ELSE IF Truthy(challenge.excluded) THEN List(<<Str(K_excluded)>>)
    ELSE IF Truthy(challenge.goal) THEN List(<<Str(K_goal)>>)
    ELSE Absent

\* locations.py:29-35: the category of a challenge location
ChallengeCategory(challenge) ==
    IF Truthy(challenge.goal) THEN List(<<Str(K_goal)>>)
    ELSE IF Truthy(challenge.excluded) THEN List(<<Str(K_excluded)>>)
    ELSE IF Truthy(challenge.priority) THEN List(<<Str(K_priority)>>)
    ELSE Absent

\* the locations of a chapter whose region field is the chapter name as written
ChapterLocations_RawRegion(chapter, ci) ==
    [p \in 1..Len(chapter.challenges) |->
        [name |-> LocationName(chapter, chapter.challenges[p]),
         id |-> get_location_id(ci, p - 1),
         region |-> chapter.name,
         category |-> ChallengeCategory(chapter.challenges[p])]]

\* locations.py:19-37: the locations of the chapter at 0-based index ci
ChapterLocations(chapter, ci) ==
    [p \in 1..Len(chapter.challenges) |->
        [name |-> LocationName(chapter, chapter.challenges[p]),
         id |-> get_location_id(ci, p - 1),
         region |-> Str(sanitize_name(chapter.name.s)),
         category |-> ChallengeCategory(chapter.challenges[p])]]

\* locations.py:40-52: the locations list after the loop over the categories from
\* index c on; every append sees the length of the list so far
RECURSIVE WithConfirmationLocations(_, _, _)
WithConfirmationLocations(locs, categories, c) ==
    IF c > Len(categories) THEN locs
    ELSE IF Truthy(categories[c].include_confirmation_locations)
    THEN WithConfirmationLocations(
             locs \o [p \in 1..Len(categories[c].items) |->
                         [name |-> ConfirmationName(categories[c].items[p]),
                          id |-> get_location_id(999, Len(locs) + p - 1),
                          region |-> Str(S_Confirmation_Locations),
                          category |-> List(<<Str(S_confirmation)>>)]],
             categories, c + 1)
    ELSE WithConfirmationLocations(locs, categories, c + 1)

\* LocationsGenerator.generate
LocationsGenerator_generate(g) ==
    WithConfirmationLocations(
        Flatten([c \in 1..Len(g.chapters) |-> ChapterLocations(g.chapters[c], c - 1)]),
        g.filler_item_categories, 1)

Max(a, b) == IF a >= b THEN a ELSE b

\* progression entries with one copy per later chapter and no spare
ProgressionEntries_NoSpare(g) ==
    [p \in 1..Len(g.progression_items) |->
        [name |-> g.progression_items[p],
         id |-> get_item_id(p - 1),
         category |-> List(<<Str(S_progression)>>),
         count |-> Len(g.chapters) - 1,
         weight |-> Absent]]

\* items.py:20-33: the progression entries; the counter is the 0-based position
ProgressionEntries(g) ==
    [p \in 1..Len(g.progression_items) |->
        [name |-> g.progression_items[p],
         id |-> get_item_id(p - 1),
         category |-> List(<<Str(S_progression)>>),
         count |-> Len(g.chapters),
         weight |-> Absent]]

\* items.py:36-51: the entries of one category, the counter being `counter` at
\* its first item;  count = max(1, int(total_challenges * category.weight / 10))
CategoryEntries(g, category, counter) ==
    [p \in 1..Len(category.items) |->
        [name |-> category.items[p].name,
         id |-> get_item_id(counter + p - 1),
         category |-> List(<<category.name>>),
         count |-> Max(1, (total_challenges(g) * Tenths(category.weight)) \div 100),
         weight |-> category.items[p].weight]]

\* a loop over the categories that numbers every category from the same counter
RECURSIVE FillerEntries_SameCounter(_, _, _)
FillerEntries_SameCounter(g, c, counter) ==
    IF c > Len(g.filler_item_categories) THEN <<>>
    ELSE CategoryEntries(g, g.filler_item_categories[c], counter)
         \o FillerEntries_SameCounter(g, c + 1, counter)

\* items.py:36-51: the loop over the categories from index c on
RECURSIVE FillerEntries(_, _, _)
FillerEntries(g, c, counter) ==
    IF c > Len(g.filler_item_categories) THEN <<>>
    ELSE CategoryEntries(g, g.filler_item_categories[c], counter)
         \o FillerEntries(g, c + 1, counter + Len(g.filler_item_categories[c].items))

\* a default filler entry that is appended whatever the categories
DefaultFiller_Always(g, counter) ==
    <<[name |-> Str(S_Filler),
       id |-> get_item_id(counter),
       category |-> List(<<Str(S_filler)>>),
       count |-> Max(1, total_challenges(g) - Len(g.progression_items)),
       weight |-> Absent]>>

\* items.py:54-61: the default filler entry
DefaultFiller(g, counter) ==
    IF g.filler_item_categories = <<>>
    THEN <<[name |-> Str(S_Filler),
            id |-> get_item_id(counter),
            category |-> List(<<Str(S_filler)>>),
            count |-> Max(1, total_challenges(g) - Len(g.progression_items)),
            weight |-> Absent]>>
    ELSE <<>>

\* ItemsGenerator.generate
ItemsGenerator_generate(g) ==
    LET n == Len(g.progression_items) IN
    ProgressionEntries(g) \o FillerEntries(g, 1, n)
        \o DefaultFiller(g, n + Len(all_filler_items(g)))

\* [x] * n
RECURSIVE Repeat(_, _)
Repeat(x, n) == IF n <= 0 THEN <<>> ELSE <<x>> \o Repeat(x, n - 1)

\* a requires list that repeats the whole list of progression items ci times
required_items_Interleaved(g, ci) ==
    Flatten([r \in 1..ci |-> g.progression_items])

\* regions.py:58-62: required_items for the chapter at 0-based index ci
required_items(g, ci) ==
    Flatten([p \in 1..Len(g.progression_items) |-> Repeat(g.progression_items[p], ci)])

\* a chapter region whose exit test is off by one: the chapter before the last
\* has no exit either
ChapterRegion_OffByOne(g, ci) ==
    LET chapter == g.chapters[ci + 1] IN
    [name |-> Str(sanitize_name(chapter.name.s)),
     locations |-> [p \in 1..Len(chapter.challenges) |->
                       LocationName(chapter, chapter.challenges[p])],
     exits |-> IF ci < Len(g.chapters) - 2
               THEN <<Str(sanitize_name(g.chapters[ci + 2].name.s))>>
               ELSE <<>>,
     requires |-> IF ci > 0 /\ required_items(g, ci) # <<>>
                  THEN List(required_items(g, ci))
                  ELSE Absent]

\* regions.py:35-67: the region of the chapter at 0-based index ci
ChapterRegion(g, ci) ==
    LET chapter == g.chapters[ci + 1] IN
    [name |-> Str(sanitize_name(chapter.name.s)),
     locations |-> [p \in 1..Len(chapter.challenges) |->
                       LocationName(chapter, chapter.challenges[p])],
     exits |-> IF ci < Len(g.chapters) - 1
               THEN <<Str(sanitize_name(g.chapters[ci + 2].name.s))>>
               ELSE <<>>,
     requires |-> IF ci > 0 /\ required_items(g, ci) # <<>>
                  THEN List(required_items(g, ci))
                  ELSE Absent]

\* RegionsGenerator._get_confirmation_locations
get_confirmation_locations(g) ==
    Flatten([c \in 1..Len(g.filler_item_categories) |->
        IF Truthy(g.filler_item_categories[c].include_confirmation_locations)
        THEN [p \in 1..Len(g.filler_item_categories[c].items) |->
                 ConfirmationName(g.filler_item_categories[c].items[p])]
        ELSE <<>>])

\* RegionsGenerator.generate: the Menu region is appended first and gets its second
\* exit after the chapter regions are appended; the list holds the same object
RegionsGenerator_generate(g) ==
    LET conf == get_confirmation_locations(g)
        menu == [name |-> Str(S_Menu),
                 locations |-> <<>>,
                 exits |-> (IF g.chapters # <<>>
                            THEN <<Str(sanitize_name(g.chapters[1].name.s))>>
                            ELSE <<>>)
                           \o (IF conf # <<>> THEN <<Str(S_Confirmation_Locations)>>
                               ELSE <<>>),
                 requires |-> Absent] IN
    <<menu>> \o [c \in 1..Len(g.chapters) |-> ChapterRegion(g, c - 1)]
        \o (IF conf # <<>>
            THEN <<[name |-> Str(S_Confirmation_Locations),
                    locations |-> conf,
                    exits |-> <<>>,
                    requires |-> Absent]>>
            ELSE <<>>)

\* apworld_packager.py:22-27, 47-54: create_apworld runs the generators in the
\* order locations, items, regions
GenerateLocations ==
    /\ game # None
    /\ gpc = 0
    /\ locations' = LocationsGenerator_generate(game)
    /\ gpc' = 1
    /\ UNCHANGED <<valVars, game, items, regions, auxVars>>

GenerateItems ==
    /\ game # None
    /\ gpc = 1
    /\ items' = ItemsGenerator_generate(game)
    /\ gpc' = 2
    /\ UNCHANGED <<valVars, game, locations, regions, auxVars>>

GenerateRegions ==
    /\ game # None
    /\ gpc = 2
    /\ regions' = RegionsGenerator_generate(game)
    /\ gpc' = 3
    /\ UNCHANGED <<valVars, game, locations, items, auxVars>>

--------------------------------------------------------------------------
(* The raw documents the validator is run on: mappings of every shape the  *)
(* checks tell apart.  The lists are bounded, and a document has one list  *)
(* explored in depth (one element that takes every choice, at every        *)
(* position) next to good neighbours before it and good and bad ones after *)
(* it.                                                                     *)

MaxProgression == 2
MaxChapters == 2
MaxChallenges == 2
MaxCategories == 2
MaxFillerItems == 2

SeqsUpTo(S, n) == UNION {[1..m -> S] : m \in 0..n}
Seqs1UpTo(S, n) == UNION {[1..m -> S] : m \in 1..n}
\* the lists of at most n elements made of one element of C, elements of P before
\* it and elements of Q after it
Around(P, C, Q, n) ==
    {x[1] \o <<x[2]>> \o x[3] :
        x \in {y \in SeqsUpTo(P, n - 1) \X C \X SeqsUpTo(Q, n - 1) :
                  Len(y[1]) + Len(y[3]) <= n - 1}}

GoodChallenge == Dict(<<KV(K_name, Str(<<"a">>))>>)
GoalChallenge == Dict(<<KV(K_name, Str(<<"b">>)), KV(K_goal, Bool(TRUE))>>)
ChallengeChoices ==
    {Str(<<"a">>),
     Dict(<<KV(K_goal, Bool(TRUE))>>),
     Dict(<<KV(K_name, Str(<<" ">>))>>),
     GoodChallenge,
     GoalChallenge,
     Dict(<<KV(K_name, Str(<<"a">>)), KV(K_priority, None), KV(<<"x">>, Bool(TRUE))>>),
     Dict(<<KV(<<"x">>, Bool(TRUE)), KV(K_name, Str(<<"a">>)), KV(K_goal, PyInt(1))>>),
     Dict(<<KV(K_excluded, Bool(TRUE)), KV(K_name, Str(<<"c">>)), KV(K_goal, Bool(FALSE)),
            KV(K_priority, Bool(TRUE))>>)}

ChallengeLists ==
    Around({GoodChallenge}, ChallengeChoices, {GoalChallenge, Str(<<"a">>)}, MaxChallenges)

RawChapter(name, challenges) ==
    Dict(<<KV(K_name, Str(name)), KV(K_challenges, List(challenges))>>)
PlainChapter == RawChapter(<<"B">>, <<GoodChallenge>>)
GoalChapter == RawChapter(<<"C", " ", "1", "!">>, <<GoalChallenge, GoodChallenge>>)
MalformedChapters ==
    {PyInt(3),
     Dict(<<KV(K_challenges, List(<<GoodChallenge>>))>>),
     RawChapter(<<" ", "\t">>, <<>>),
     Dict(<<KV(K_name, Str(<<"A">>))>>),
     Dict(<<KV(K_name, Str(<<"A">>)), KV(K_challenges, Str(<<"a">>))>>),
     RawChapter(<<"A">>, <<>>)}

ChapterLists ==
    SeqsUpTo(MalformedChapters \cup {PlainChapter, GoalChapter}, MaxChapters)
    \cup Around({PlainChapter, GoalChapter},
                 {RawChapter(<<"A">>, cs) : cs \in ChallengeLists},
                 {GoalChapter, PyInt(3)}, MaxChapters)

ItemChoices ==
    {Str(<<"x">>),
     Str(<<" ">>),
     PyInt(5),
     Dict(<<>>),
     Dict(<<KV(K_name, Str(<<>>))>>),
     Dict(<<KV(K_name, Str(<<"y">>))>>),
     Dict(<<KV(K_name, Str(<<"y">>)), KV(K_weight, PyInt(2))>>),
     Dict(<<KV(K_name, Str(<<"y">>)), KV(K_weight, PyInt(0))>>),
     Dict(<<KV(K_name, Str(<<"y">>)), KV(K_weight, Bool(TRUE))>>)}

ItemLists ==
    Around({Str(<<"x">>)}, ItemChoices,
           {Dict(<<KV(K_name, Str(<<"z">>)), KV(K_weight, Float(5))>>), PyInt(5)},
           MaxFillerItems)

Opt(key, values) == {<<>>} \cup {<<KV(key, v)>> : v \in values}

GoodCategory == Dict(<<KV(K_items, List(<<Str(<<"x">>)>>))>>)
ConfirmedCategory ==
    Dict(<<KV(K_weight, PyInt(20)), KV(K_include_confirmation_locations, Bool(TRUE)),
           KV(K_items, List(<<Str(<<"x">>), Dict(<<KV(K_name, Str(<<"y">>))>>)>>))>>)
BadCategory == Str(<<"x">>)
CategoryChoices ==
    {Dict(w \o c \o its) :
        <<w, c, its>> \in
            Opt(K_weight, {PyInt(2), PyInt(0), Bool(TRUE), Bool(FALSE), Float(5),
                           Str(<<"2">>)})
            \X Opt(K_include_confirmation_locations, {Bool(TRUE), PyInt(1)})
            \X Opt(K_items, {Str(<<"x">>), List(<<>>), List(<<Str(<<"x">>)>>)})}
    \cup {Dict(<<KV(K_include_confirmation_locations, Bool(TRUE)), KV(K_items, List(its))>>) :
            its \in ItemLists}

\* the keys of the categories: the p-th category of a mapping is under CategoryKey(p)
CategoryKey(p) == Str(<<"F", "i", "l", "l", " ", Head(SubSeq(<<"1", "2", "3", "4">>, p, p))>>)
RawCategories(cats) == Dict([p \in 1..Len(cats) |-> [k |-> CategoryKey(p), v |-> cats[p]]])

CategoryMaps ==
    {RawCategories(cats) :
        cats \in Around({GoodCategory}, CategoryChoices, {ConfirmedCategory, BadCategory},
                        MaxCategories)}
    \cup {Dict(<<[k |-> key, v |-> GoodCategory]>>) :
            key \in {Str(<<>>), Str(<<" ">>), PyInt(1), None}}

GoodName == <<KV(K_name, Str(<<"G">>))>>
GoodProgression == <<KV(K_progression_items, List(<<Str(<<"K">>)>>))>>

Document(name, progression_items, chapters, filler_item_categories) ==
    Dict(name \o progression_items \o chapters \o filler_item_categories)

\* the top level in depth
TopLevelDocuments ==
    {Document(n, p, c, f) :
        <<n, p, c, f>> \in
            Opt(K_name, {Str(<<"G">>), Str(<<" ">>), PyInt(1)})
            \X ({<<>>, <<KV(K_progression_items, Str(<<"K">>))>>}
                \cup {<<KV(K_progression_items, List(ps))>> :
                        ps \in SeqsUpTo({Str(<<"K">>), Str(<<"\t">>), PyInt(7)},
                                        MaxProgression)})
            \X Opt(K_chapters, {Str(<<"A">>), List(<<GoalChapter>>), List(<<PyInt(3)>>)})
            \X Opt(K_filler_item_categories,
                   {PyInt(1), Dict(<<>>), RawCategories(<<GoodCategory>>),
                    RawCategories(<<BadCategory>>)})}

\* the chapters in depth
ChapterDocuments ==
    {Document(GoodName, GoodProgression, <<KV(K_chapters, List(chs))>>, f) :
        <<chs, f>> \in
            ChapterLists
            \X Opt(K_filler_item_categories,
                   {RawCategories(<<ConfirmedCategory>>), RawCategories(<<BadCategory>>)})}

\* the filler categories in depth
FillerDocuments ==
    {Document(GoodName, GoodProgression, <<KV(K_chapters, List(chs))>>,
              <<KV(K_filler_item_categories, f)>>) :
        <<chs, f>> \in {<<PlainChapter>>, <<GoalChapter, PlainChapter>>} \X CategoryMaps}

\* chapter names that sanitize to the name of another region or to nothing
SpecialChapterNames ==
    {<<"C", "o", "n", "f", "i", "r", "m", "a", "t", "i", "o", "n", " ",
       "L", "o", "c", "a", "t", "i", "o", "n", "s">>,
     <<"M", "e", "n", "u">>,
     <<"?", "!">>,
     <<"C", "h", " ", "1", "?">>}

\* documents of two chapters, the first with one of these names
NamedDocuments ==
    {Document(GoodName, GoodProgression,
              <<KV(K_chapters, List(<<RawChapter(n1, <<GoalChallenge>>),
                                      RawChapter(n2, <<GoodChallenge>>)>>))>>,
              <<KV(K_filler_item_categories, RawCategories(<<ConfirmedCategory>>))>>) :
        <<n1, n2>> \in SpecialChapterNames
                       \X {<<"C", "h", " ", "1", "!">>, <<"C", "h", " ", "1", "?">>}}

Documents ==
    TopLevelDocuments \cup ChapterDocuments \cup FillerDocuments \cup NamedDocuments

--------------------------------------------------------------------------
(* The definitions the generators are run on directly: models of validated *)
(* documents, with more chapters and longer chapters than the documents    *)
(* above.                                                                  *)

GenMaxProgression == 2
GenMaxChapters == 3
GenMaxCategories == 2
\* the length of the long chapter
GenLongChapter == 101

DigitChar(d) == Head(SubSeq(<<"0", "1", "2", "3", "4", "5", "6", "7", "8", "9">>, d + 1, d + 1))
RECURSIVE Decimal(_)
Decimal(n) == IF n < 10 THEN <<DigitChar(n)>> ELSE Decimal(n \div 10) \o <<DigitChar(n % 10)>>

\* challenge number p (1-based) of a chapter of style s: the flags run through
\* the eight combinations, starting at s
GenChallenge(s, p) ==
    [name |-> Str(<<"c">> \o Decimal(p)),
     goal |-> Bool((s + p) % 2 = 1),
     excluded |-> Bool(((s + p) \div 2) % 2 = 1),
     priority |-> Bool(((s + p) \div 4) % 2 = 1)]

\* chapter number c (1-based), of shape [n: its length, s: its style]
GenChapter(c, shape) ==
    [name |-> Str(<<"C", "h", " ">> \o Decimal(c) \o <<"!">>),
     challenges |-> [p \in 1..shape.n |-> GenChallenge(shape.s, p)]]

ShortShapes == {[n |-> 1, s |-> 1], [n |-> 2, s |-> 5]}
LongShape == [n |-> GenLongChapter, s |-> 0]
\* a long chapter, alone or followed by a short one
LongChapterShapes == {<<LongShape>> \o t : t \in SeqsUpTo(ShortShapes, 1)}

\* category number c (1-based), of shape [n: its length, icl, w: its weight]
GenCategory(c, shape) ==
    [name |-> Str(<<"F", " ">> \o Decimal(c)),
     weight |-> shape.w,
     include_confirmation_locations |-> Bool(shape.icl),
     items |-> [p \in 1..shape.n |->
                  [name |-> Str(<<"x">> \o Decimal(c) \o <<"-">> \o Decimal(p)),
                   weight |-> IF p = 1 THEN Float(10) ELSE PyInt(3)]]]

CategoryShapes == {[n |-> 1, icl |-> FALSE, w |-> Float(10)],
                   [n |-> 2, icl |-> TRUE, w |-> PyInt(20)],
                   [n |-> 1, icl |-> TRUE, w |-> Float(5)]}

\* the progression items: K, L, K, ... or L, K, L, ... or K, K, K, ...
ProgressionLists ==
    {[p \in 1..n |-> IF o = 2 \/ (p + o) % 2 = 1 THEN Str(<<"K">>) ELSE Str(<<"L">>)] :
        <<n, o>> \in (1..GenMaxProgression) \X (0..2)}

GenGame(ps, chs, cats) ==
    [name |-> Str(<<"G">>),
     progression_items |-> ps,
     chapters |-> [c \in 1..Len(chs) |-> GenChapter(c, chs[c])],
     description |-> None,
     filler_item_categories |-> [c \in 1..Len(cats) |-> GenCategory(c, cats[c])]]

\* a game of one-challenge chapters with the given names, whose progression item
\* has the name of the default filler item
NamedGame(names, cats) ==
    LET g == GenGame(<<Str(S_Filler)>>, [c \in 1..Len(names) |-> [n |-> 1, s |-> 1]], cats) IN
    [g EXCEPT !.chapters = [c \in 1..Len(names) |-> [g.chapters[c] EXCEPT !.name = Str(names[c])]]]

GenGames ==
    {GenGame(x[1], x[2], x[3]) :
        x \in ProgressionLists
              \X Seqs1UpTo(ShortShapes, GenMaxChapters)
              \X SeqsUpTo(CategoryShapes, GenMaxCategories)}
    \cup {GenGame(<<Str(<<"K">>)>>, x[1], x[2]) :
            x \in LongChapterShapes \X SeqsUpTo(CategoryShapes, 1)}
    \cup {NamedGame(x[1], x[2]) :
            x \in Seqs1UpTo(SpecialChapterNames \cup {<<"C", "h", " ", "1", "!">>}, 2)
                  \X SeqsUpTo(CategoryShapes, 1)}

--------------------------------------------------------------------------
(* The specifications *)

\* no name is being sanitized
SanIdle ==
    /\ raw_name = <<>>
    /\ sanitized = None
    /\ resanitized = None
    /\ suggested = None

\* no fetch operation runs
FetchIdle ==
    /\ op = None
    /\ attempt = 0
    /\ fpc = "idle"
    /\ fetch_log = <<>>
    /\ fetch_result = None
    /\ dest_file = Absent

\* no archive is being assembled
PackIdle ==
    /\ base_apworld = Absent
    /\ ppc = [at |-> "idle", n |-> 0]
    /\ base_extracted = <<>>
    /\ overrides_dir = <<>>
    /\ final_dir = <<>>
    /\ output_apworld = Absent

\* download_base_apworld is not called
CacheIdle ==
    /\ dpc = "idle"
    /\ force_download = FALSE
    /\ ncalls = 0

\* validate_definition is called on a document; nothing is built yet
Init ==
    /\ doc \in Documents
    /\ pc = "required_fields"
    /\ i = 0
    /\ j = 0
    /\ goal_challenges = 0
    /\ stdout = <<>>
    /\ stderr = <<>>
    /\ exit_code = -1
    /\ evaluated = <<>>
    /\ game = None
    /\ gpc = 0
    /\ locations = <<>>
    /\ items = <<>>
    /\ regions = <<>>
    /\ SanIdle
    /\ FetchIdle
    /\ PackIdle
    /\ CacheIdle

Next ==
    \/ CheckRequiredFields
    \/ CheckName
    \/ CheckProgressionItems
    \/ CheckChapters
    \/ CheckChapter
    \/ CheckChallenge
    \/ CheckGoal
    \/ CheckFillerCategories
    \/ CheckCategory
    \/ CheckItem
    \/ FromDict
    \/ GenerateLocations
    \/ GenerateItems
    \/ GenerateRegions

Spec == Init /\ [][Next]_vars

\* create_apworld is called with a GameDefinition
InitGen ==
    /\ doc = None
    /\ pc = "returned"
    /\ i = 0
    /\ j = 0
    /\ goal_challenges = 0
    /\ stdout = <<>>
    /\ stderr = <<>>
    /\ exit_code = -1
    /\ evaluated = <<>>
    /\ game \in GenGames
    /\ gpc = 0
    /\ locations = <<>>
    /\ items = <<>>
    /\ regions = <<>>
    /\ SanIdle
    /\ FetchIdle
    /\ PackIdle
    /\ CacheIdle

NextGen ==
    \/ GenerateLocations
    \/ GenerateItems
    \/ GenerateRegions

SpecGen == InitGen /\ [][NextGen]_vars

--------------------------------------------------------------------------
(* The two functions that sanitize a name, run on the same name *)

S_apworld == <<".", "a", "p", "w", "o", "r", "l", "d">>

\* re.sub(r'[^\w\-_\.]', '', name)
RECURSIVE RemoveUnsafe(_)
RemoveUnsafe(s) ==
    IF s = <<>> THEN <<>>
    ELSE IF IsWord(Head(s)) \/ Head(s) \in {"-", "_", "."}
    THEN <<Head(s)>> \o RemoveUnsafe(Tail(s))
    ELSE RemoveUnsafe(Tail(s))

\* ApworldPackager.get_suggested_output_name, for the game name `name`
get_suggested_output_name(name) == RemoveUnsafe(ReplaceSpaces(name)) \o S_apworld

\* the names: strings of a letter, a digit, the underscore, the hyphen, the
\* space, another whitespace, the dot and another punctuation mark
MaxNameLen == 3
NameChars == {"a", "1", "_", "-", " ", "\t", ".", "!"}
Names == SeqsUpTo(NameChars, MaxNameLen)

\* _sanitize_name(raw_name)
Sanitize ==
    /\ sanitized = None
    /\ sanitized' = Str(sanitize_name(raw_name))
    /\ UNCHANGED <<valVars, game, genVars, raw_name, resanitized, suggested, fetchVars, packVars, cacheVars>>

\* _sanitize_name of the result of _sanitize_name
SanitizeAgain ==
    /\ sanitized # None
    /\ resanitized = None
    /\ resanitized' = Str(sanitize_name(sanitized.s))
    /\ UNCHANGED <<valVars, game, genVars, raw_name, sanitized, suggested, fetchVars, packVars, cacheVars>>

\* get_suggested_output_name() of a packager whose game is named raw_name
SuggestName ==
    /\ suggested = None
    /\ suggested' = Str(get_suggested_output_name(raw_name))
    /\ UNCHANGED <<valVars, game, genVars, raw_name, sanitized, resanitized, fetchVars, packVars, cacheVars>>

\* no document is being validated
ValIdle ==
    /\ doc = None
    /\ pc = "returned"
    /\ i = 0
    /\ j = 0
    /\ goal_challenges = 0
    /\ stdout = <<>>
    /\ stderr = <<>>
    /\ exit_code = -1
    /\ evaluated = <<>>

\* no artifact is being generated
GenIdle ==
    /\ game = None
    /\ gpc = 0
    /\ locations = <<>>
    /\ items = <<>>
    /\ regions = <<>>

InitSan ==
    /\ ValIdle
    /\ GenIdle
    /\ raw_name \in Names
    /\ sanitized = None
    /\ resanitized = None
    /\ suggested = None
    /\ FetchIdle
    /\ PackIdle
    /\ CacheIdle

NextSan ==
    \/ Sanitize
    \/ SanitizeAgain
    \/ SuggestName

SpecSan == InitSan /\ [][NextSan]_vars

--------------------------------------------------------------------------
(* The fetch operations of BaseDownloader: get_latest_release_info and     *)
(* download_file.  Every request ends in one of: status 200 and a body     *)
(* read to the end, another status, an exception before the status, and    *)
(* (download_file) status 200 and an exception after some chunks.          *)

MAX_RETRIES == 3
\* the number of chunks of the body of the download
BodyChunks == 2
\* the statuses other than 200 that a request gets
OtherStatuses == {404, 503}

F_release == "get_latest_release_info"
F_download == "download_file"
FetchOps == {F_release, F_download}

\* one entry of the log: a request with its attempt number and outcome, a line on
\* stderr, a sleep with its seconds, or the exit with its status
Event(e, n, x) == [e |-> e, n |-> n, x |-> x]
\* a file that holds the first `chunks` chunks of the body `body`
File(body, chunks) == [t |-> "file", body |-> body, chunks |-> chunks]
\* response.json() of the release
S_assets == <<"a", "s", "s", "e", "t", "s">>
S_name == <<"n", "a", "m", "e">>
S_browser_download_url ==
    <<"b", "r", "o", "w", "s", "e", "r", "_", "d", "o", "w", "n", "l", "o", "a", "d",
      "_", "u", "r", "l">>
Asset(name) ==
    Dict(<<KV(S_name, Str(name)), KV(S_browser_download_url, Str(<<"u">> \o name))>>)
ReleaseInfo == Dict(<<KV(S_assets, List(<<>>))>>)
\* the bodies of the release: no asset, an asset that is no .apworld, a .apworld
\* asset after another one, and the empty object
ReleaseInfos ==
    {ReleaseInfo,
     Dict(<<KV(S_assets, List(<<Asset(<<"m", ".", "z", "i", "p">>)>>))>>),
     Dict(<<KV(S_assets, List(<<Asset(<<"m", ".", "z", "i", "p">>),
                                Asset(<<"M">> \o S_apworld)>>))>>),
     Dict(<<>>)}

\* status 200 and the body read to the end: the operation returns
Respond200 ==
    /\ fpc = "request"
    /\ fetch_log' = Append(fetch_log, Event("request", attempt, "ok"))
    /\ fpc' = "returned"
    /\ \E info \in ReleaseInfos :
          fetch_result' = IF op = F_release THEN info ELSE None
    /\ dest_file' = IF op = F_download THEN File("new", BodyChunks) ELSE dest_file
    /\ UNCHANGED <<valVars, game, genVars, sanVars, packVars, cacheVars, op, attempt>>

\* a loop that asks again after another status without counting the attempt
RespondOtherStatus_NotCounted ==
    /\ fpc = "request"
    /\ \E code \in OtherStatuses :
          fetch_log' = fetch_log \o <<Event("request", attempt, "status"),
                                      Event("stderr", code, "status")>>
    /\ UNCHANGED <<valVars, game, genVars, sanVars, packVars, cacheVars, op, attempt, fpc, fetch_result, dest_file>>

\* another status: a line on stderr, and the loop goes on to the next attempt at
\* once; after the last attempt the loop ends and the function returns ({} or None)
RespondOtherStatus ==
    /\ fpc = "request"
    /\ \E code \in OtherStatuses :
          fetch_log' = fetch_log \o <<Event("request", attempt, "status"),
                                      Event("stderr", code, "status")>>
    /\ IF attempt = MAX_RETRIES - 1
       THEN /\ fpc' = "returned"
            /\ fetch_result' = IF op = F_release THEN Dict(<<>>) ELSE None
            /\ UNCHANGED attempt
       ELSE /\ attempt' = attempt + 1
            /\ UNCHANGED <<fpc, fetch_result>>
    /\ UNCHANGED <<valVars, game, genVars, sanVars, packVars, cacheVars, op, dest_file>>

\* the except branch: on the last attempt a line on stderr and sys.exit(1), else
\* the sleep is next
Handle ==
    IF attempt = MAX_RETRIES - 1
    THEN /\ fetch_log' = fetch_log \o <<Event("request", attempt, "exception"),
                                         Event("stderr", MAX_RETRIES, "failed"),
                                         Event("exit", 1, "")>>
         /\ fpc' = "exited"
    ELSE /\ fetch_log' = Append(fetch_log, Event("request", attempt, "exception"))
         /\ fpc' = "sleep"

\* an exception before the status is read (no connection, timeout), or in
\* response.json()
RaiseException ==
    /\ fpc = "request"
    /\ Handle
    /\ UNCHANGED <<valVars, game, genVars, sanVars, packVars, cacheVars, op, attempt, fetch_result, dest_file>>

\* download_file: status 200, the destination opened for writing, k chunks written
\* and then an exception
RaiseWhileStreaming ==
    /\ fpc = "request"
    /\ op = F_download
    /\ \E k \in 0..(BodyChunks - 1) : dest_file' = File("new", k)
    /\ Handle
    /\ UNCHANGED <<valVars, game, genVars, sanVars, packVars, cacheVars, op, attempt, fetch_result>>

\* await asyncio.sleep(2 ** attempt), then the next attempt
Backoff ==
    /\ fpc = "sleep"
    /\ fetch_log' = Append(fetch_log, Event("sleep", 2 ^ attempt, ""))
    /\ attempt' = attempt + 1
    /\ fpc' = "request"
    /\ UNCHANGED <<valVars, game, genVars, sanVars, packVars, cacheVars, op, fetch_result, dest_file>>

\* one of the two operations is called; download_file may find an older file at
\* its destination
InitFetch ==
    /\ ValIdle
    /\ GenIdle
    /\ SanIdle
    /\ PackIdle
    /\ CacheIdle
    /\ op \in FetchOps
    /\ attempt = 0
    /\ fpc = "request"
    /\ fetch_log = <<>>
    /\ fetch_result = None
    /\ dest_file \in IF op = F_download THEN {Absent, File("old", BodyChunks)} ELSE {Absent}

NextFetch ==
    \/ Respond200
    \/ RespondOtherStatus
    \/ RaiseException
    \/ RaiseWhileStreaming
    \/ Backoff

\* every request ends (the session has a total timeout) and every sleep ends
SpecFetch == InitFetch /\ [][NextFetch]_vars /\ WF_vars(NextFetch)

--------------------------------------------------------------------------
(* ApworldPackager.create_apworld: the base archive is extracted, every    *)
(* generator writes its file under <temp>/overrides, the extracted files   *)
(* and then the overrides are copied to <temp>/final, which is zipped.     *)
(* A directory is the content of each of its files, by relative path; a    *)
(* path is the sequence of its components. The entries of the base archive *)
(* are files, none of them at a place where a generator needs a directory  *)
(* or under a place where it writes a file.                                *)

S_json == <<".", "j", "s", "o", "n">>
S_data == <<"d", "a", "t", "a">>
S_locations_json == <<"l", "o", "c", "a", "t", "i", "o", "n", "s">> \o S_json
S_items_json == <<"i", "t", "e", "m", "s">> \o S_json
S_regions_json == <<"r", "e", "g", "i", "o", "n", "s">> \o S_json
S_game_json == <<"g", "a", "m", "e">> \o S_json
S_hooks_py == <<"h", "o", "o", "k", "s", ".", "p", "y">>
S_init_py == <<"_", "_", "i", "n", "i", "t", "_", "_", ".", "p", "y">>

\* str.endswith(suffix)
EndsWith(s, suffix) ==
    /\ Len(s) >= Len(suffix)
    /\ SubSeq(s, Len(s) - Len(suffix) + 1, Len(s)) = suffix

\* an archive with the given files
Zip(files) == [t |-> "zip", files |-> files]

\* the position in create_apworld; n counts the generators of the loop
PackAt(a, n) == [at |-> a, n |-> n]

\* self.generators, in the order of the list
Generators == <<"locations", "items", "regions", "hooks">>

\* HooksGenerator.get_output_filename(): a file of the archive root
HooksOutputFilename == S_hooks_py

\* generator.get_output_filename()
get_output_filename(g) ==
    CASE g = "locations" -> S_locations_json
      [] g = "items" -> S_items_json
      [] g = "regions" -> S_regions_json
      [] g = "hooks" -> HooksOutputFilename

\* what the generator g writes to its file
Generated(g) == g

\* the directory d after content c is written to the path p
WriteFile(d, p, c) == [q \in DOMAIN d \cup {p} |-> IF q = p THEN c ELSE d[q]]

\* generator.write_to_file(output_dir), output_dir relative to the overrides
write_to_file(d, output_dir, g) ==
    WriteFile(d, output_dir \o <<get_output_filename(g)>>, Generated(g))

\* _copy_directory(src, dst) where the existing file of dst is kept
copy_directory_KeepExisting(src, dst) ==
    [q \in DOMAIN dst \cup DOMAIN src |->
        IF q \in DOMAIN dst THEN dst[q] ELSE src[q]]

\* _copy_directory(src, dst): every file of src is copied to the same
\* relative path of dst, over the file that is there
copy_directory(src, dst) ==
    [q \in DOMAIN dst \cup DOMAIN src |->
        IF q \in DOMAIN src THEN src[q] ELSE dst[q]]

\* extract_zip(zip_path, extract_to), extract_to being new
extract_zip(zip) == zip.files

\* create_zip(source_dir, zip_path): the files of source_dir, by relative path
create_zip(source_dir) == Zip(source_dir)

\* the base archives: at most MaxBaseFiles files, at the paths the
\* generators write to and at others
MaxBaseFiles == 3
BasePaths ==
    {<<S_data, S_locations_json>>, <<S_data, S_items_json>>,
     <<S_data, S_regions_json>>, <<S_hooks_py>>,
     <<S_data, S_game_json>>, <<S_init_py>>, <<S_items_json>>,
     <<S_data, S_hooks_py>>}
BaseContents == {"base", "items"}
BaseArchives ==
    {Zip(f) : f \in UNION {[P -> BaseContents] :
        P \in {Q \in SUBSET BasePaths : Cardinality(Q) <= MaxBaseFiles}}}

\* extract_zip(self.base_apworld_path, base_extracted) and the two
\* ensure_directory calls, which create no file
ExtractBase ==
    /\ ppc.at = "extract"
    /\ base_extracted' = extract_zip(base_apworld)
    /\ ppc' = PackAt("generate", 1)
    /\ UNCHANGED <<valVars, game, genVars, sanVars, fetchVars, cacheVars, base_apworld,
                   overrides_dir, final_dir, output_apworld>>

\* one turn of `for generator in self.generators`
Generate ==
    /\ ppc.at = "generate"
    /\ LET g == Generators[ppc.n]
       IN  overrides_dir' =
               IF EndsWith(get_output_filename(g), S_json)
               THEN write_to_file(overrides_dir, <<S_data>>, g)
               ELSE write_to_file(overrides_dir, <<>>, g)
    /\ ppc' = IF ppc.n < Len(Generators) THEN PackAt("generate", ppc.n + 1)
              ELSE PackAt("copy_base", 0)
    /\ UNCHANGED <<valVars, game, genVars, sanVars, fetchVars, cacheVars, base_apworld,
                   base_extracted, final_dir, output_apworld>>

\* self._copy_directory(base_extracted, final_dir)
CopyBase ==
    /\ ppc.at = "copy_base"
    /\ final_dir' = copy_directory(base_extracted, final_dir)
    /\ ppc' = PackAt("copy_overrides", 0)
    /\ UNCHANGED <<valVars, game, genVars, sanVars, fetchVars, cacheVars, base_apworld,
                   base_extracted, overrides_dir, output_apworld>>

\* self._copy_directory(overrides_dir, final_dir)
CopyOverrides ==
    /\ ppc.at = "copy_overrides"
    /\ final_dir' = copy_directory(overrides_dir, final_dir)
    /\ ppc' = PackAt("create_zip", 0)
    /\ UNCHANGED <<valVars, game, genVars, sanVars, fetchVars, cacheVars, base_apworld,
                   base_extracted, overrides_dir, output_apworld>>

\* create_zip(final_dir, output_path); return output_path
CreateZip ==
    /\ ppc.at = "create_zip"
    /\ output_apworld' = create_zip(final_dir)
    /\ ppc' = PackAt("returned", 0)
    /\ UNCHANGED <<valVars, game, genVars, sanVars, fetchVars, cacheVars, base_apworld,
                   base_extracted, overrides_dir, final_dir>>

\* create_apworld(output_path) is called; output_path may hold an archive
InitPack ==
    /\ ValIdle
    /\ GenIdle
    /\ SanIdle
    /\ FetchIdle
    /\ CacheIdle
    /\ base_apworld \in BaseArchives
    /\ ppc = PackAt("extract", 0)
    /\ base_extracted = <<>>
    /\ overrides_dir = <<>>
    /\ final_dir = <<>>
    /\ output_apworld \in {Absent, Zip([q \in {<<S_init_py>>} |-> "stale"])}

NextPack ==
    \/ ExtractBase
    \/ Generate
    \/ CopyBase
    \/ CopyOverrides
    \/ CreateZip

SpecPack == InitPack /\ [][NextPack]_vars

--------------------------------------------------------------------------
(* BaseDownloader.download_base_apworld, called again and again on the     *)
(* same cache directory (a call that ends in sys.exit(1) ends the process; *)
(* the next call is made by another run).  dest_file is the file at        *)
(* get_cached_apworld_path(); the two fetch operations run as above.       *)

\* the calls of one behaviour
MaxCalls == 2

\* is_cached()
is_cached == dest_file # Absent

\* the first asset whose name ends in .apworld, or None
apworld_asset(release_info) ==
    LET assets == GetOr(release_info, S_assets, List(<<>>)).items
        found == {p \in 1..Len(assets) : EndsWith(Get(assets[p], S_name).s, S_apworld)}
    IN  IF found = {} THEN None
        ELSE assets[CHOOSE p \in found : \A q \in found : p <= q]

\* the call, up to `await self.get_latest_release_info()`: the cached path is
\* returned when the file exists and the download is not forced
CallDownloadBase ==
    /\ dpc \in {"idle", "returned", "exited"}
    /\ ncalls < MaxCalls
    /\ ncalls' = ncalls + 1
    /\ \E force \in BOOLEAN :
          /\ force_download' = force
          /\ IF is_cached /\ ~force
             THEN /\ dpc' = "returned"
                  /\ fpc' = "idle"
                  /\ UNCHANGED <<op, attempt, fetch_log, fetch_result>>
             ELSE /\ dpc' = "release_info"
                  /\ op' = F_release
                  /\ attempt' = 0
                  /\ fpc' = "request"
                  /\ fetch_log' = <<>>
                  /\ fetch_result' = None
    /\ UNCHANGED <<valVars, game, genVars, sanVars, packVars, dest_file>>

\* from the return of get_latest_release_info to `await self.download_file(...)`
AfterReleaseInfo ==
    /\ dpc = "release_info"
    /\ fpc = "returned"
    /\ IF ~Truthy(fetch_result)
       THEN /\ dpc' = "exited"
            /\ fpc' = "idle"
            /\ fetch_log' = fetch_log \o <<Event("stderr", 0, "no release info"),
                                          Event("exit", 1, "")>>
            /\ UNCHANGED <<op, attempt, fetch_result>>
       ELSE IF apworld_asset(fetch_result) = None
       THEN /\ dpc' = "exited"
            /\ fpc' = "idle"
            /\ fetch_log' = fetch_log \o <<Event("stderr", 0, "no asset"),
                                          Event("exit", 1, "")>>
            /\ UNCHANGED <<op, attempt, fetch_result>>
       ELSE /\ dpc' = "download"
            /\ op' = F_download
            /\ attempt' = 0
            /\ fpc' = "request"
            /\ fetch_log' = <<>>
            /\ fetch_result' = None
    /\ UNCHANGED <<valVars, game, genVars, sanVars, packVars, dest_file,
                   force_download, ncalls>>

\* download_file returned: `return cached_path`
AfterDownloadFile ==
    /\ dpc = "download"
    /\ fpc = "returned"
    /\ dpc' = "returned"
    /\ fpc' = "idle"
    /\ UNCHANGED <<valVars, game, genVars, sanVars, packVars, op, attempt, fetch_log,
                   fetch_result, dest_file, force_download, ncalls>>

\* sys.exit(1) in a fetch operation ends the call as well
ExitFromFetch ==
    /\ dpc \in {"release_info", "download"}
    /\ fpc = "exited"
    /\ dpc' = "exited"
    /\ fpc' = "idle"
    /\ UNCHANGED <<valVars, game, genVars, sanVars, packVars, op, attempt, fetch_log,
                   fetch_result, dest_file, force_download, ncalls>>

\* a new cache directory, or one with the archive of an earlier complete download
InitCache ==
    /\ ValIdle
    /\ GenIdle
    /\ SanIdle
    /\ PackIdle
    /\ CacheIdle
    /\ op = None
    /\ attempt = 0
    /\ fpc = "idle"
    /\ fetch_log = <<>>
    /\ fetch_result = None
    /\ dest_file \in {Absent, File("old", BodyChunks)}

NextCache ==
    \/ CallDownloadBase
    \/ AfterReleaseInfo
    \/ AfterDownloadFile
    \/ ExitFromFetch
    \/ Respond200
    \/ RespondOtherStatus
    \/ RaiseException
    \/ RaiseWhileStreaming
    \/ Backoff

SpecCache == InitCache /\ [][NextCache]_vars

--------------------------------------------------------------------------
(* The rules of the validator, stated over the whole document at once:     *)
(* every rule is judged on its own wherever it applies, and a violation    *)
(* carries its place in the fixed order (a sequence of numbers, compared   *)
(* lexicographically), the message the rule asks for and the position of   *)
(* the walk that judges it.                                                *)

\* a string that is not blank: some character of it is not white space
NonBlankString(v) == v.t = "str" /\ \E p \in 1..Len(v.s) : ~IsSpace(v.s[p])
\* a number above zero, as Python counts numbers (True is the number 1)
PositiveNumberPy(v) == v.t \in {"int", "float", "bool"} /\ Tenths(v) > 0
\* a number above zero, a boolean not being a number
PositiveNumber(v) == v.t \in {"int", "float"} /\ Tenths(v) > 0

Violation(pos, err, at) == [pos |-> pos, err |-> err, at |-> at]
When(cond, pos, err, at) == IF cond THEN {Violation(pos, err, at)} ELSE {}

RECURSIVE LexLess(_, _)
LexLess(a, b) ==
    IF a = <<>> THEN b # <<>>
    ELSE IF b = <<>> THEN FALSE
    ELSE IF Head(a) # Head(b) THEN Head(a) < Head(b)
    ELSE LexLess(Tail(a), Tail(b))

\* the missing required keys, in the order name, progression_items, chapters
MissingInOrder(d) ==
    (IF HasKey(d, K_name) THEN <<>> ELSE <<K_name>>)
    \o (IF HasKey(d, K_progression_items) THEN <<>> ELSE <<K_progression_items>>)
    \o (IF HasKey(d, K_chapters) THEN <<>> ELSE <<K_chapters>>)

KnownChallengeKey(k) == k.t = "str" /\ k.s \in {K_name, K_goal, K_excluded, K_priority}
FlagKey(k) == k.t = "str" /\ k.s \in {K_goal, K_excluded, K_priority}

\* challenge h of chapter c (1-based)
ChallengeViolations(ch, c, h) ==
    LET pre == <<4, 3, c, 7, h>>
        at == At("challenge", c - 1, h - 1) IN
    IF ch.t # "dict" THEN {Violation(pre \o <<1>>, Err("challenge_not_dict", c, h, None), at)}
    ELSE When(~HasKey(ch, K_name), pre \o <<2>>, Err("challenge_missing_name", c, h, None), at)
         \cup When(HasKey(ch, K_name) /\ ~NonBlankString(GetOr(ch, K_name, None)),
                   pre \o <<3>>, Err("challenge_name_not_nonempty_str", c, h, None), at)
         \cup {Violation(pre \o <<4, p>>,
                         Err("challenge_invalid_flag", 0, 0,
                             List(<<GetOr(ch, K_name, None), ch.kv[p].k>>)), at) :
                 p \in {q \in 1..Len(ch.kv) : ~KnownChallengeKey(ch.kv[q].k)}}
         \cup {Violation(pre \o <<4, p>>,
                         Err("challenge_flag_not_bool", 0, 0,
                             List(<<GetOr(ch, K_name, None), ch.kv[p].k>>)), at) :
                 p \in {q \in 1..Len(ch.kv) : FlagKey(ch.kv[q].k) /\ ch.kv[q].v.t # "bool"}}

\* chapter c (1-based)
ChapterViolations(chapter, c) ==
    LET pre == <<4, 3, c>>
        at == At("chapter", c - 1, 0) IN
    IF chapter.t # "dict" THEN {Violation(pre \o <<1>>, Err("chapter_not_dict", c, 0, None), at)}
    ELSE When(~HasKey(chapter, K_name), pre \o <<2>>,
              Err("chapter_missing_name", c, 0, None), at)
         \cup When(HasKey(chapter, K_name) /\ ~NonBlankString(GetOr(chapter, K_name, None)),
                   pre \o <<3>>, Err("chapter_name_not_nonempty_str", c, 0, None), at)
         \cup When(~HasKey(chapter, K_challenges), pre \o <<4>>,
                   Err("chapter_missing_challenges", c, 0, None), at)
         \cup (IF ~HasKey(chapter, K_challenges) THEN {}
               ELSE LET chs == Get(chapter, K_challenges) IN
                    IF chs.t # "list"
                    THEN {Violation(pre \o <<5>>,
                                    Err("chapter_challenges_not_list", c, 0, None), at)}
                    ELSE When(chs.items = <<>>, pre \o <<6>>,
                              Err("chapter_no_challenge", c, 0, None), at)
                         \cup UNION {ChallengeViolations(chs.items[h], c, h) :
                                        h \in 1..Len(chs.items)})

\* item m of category q (1-based), the category being under the key `key`
ItemViolations(item, q, m, key) ==
    LET pre == <<5, 2, q, 7, m>>
        at == At("item", q - 1, m - 1) IN
    IF item.t = "str"
    THEN When(~NonBlankString(item), pre \o <<1>>, Err("item_empty", m, 0, key), at)
    ELSE IF item.t = "dict"
    THEN When(~HasKey(item, K_name), pre \o <<2>>, Err("item_missing_name", m, 0, key), at)
         \cup When(HasKey(item, K_name) /\ ~NonBlankString(GetOr(item, K_name, None)),
                   pre \o <<3>>, Err("item_name_not_nonempty_str", m, 0, key), at)
         \cup When(HasKey(item, K_weight) /\ ~PositiveNumberPy(GetOr(item, K_weight, None)),
                   pre \o <<4>>,
                   Err("item_weight_not_positive", 0, 0,
                       List(<<GetOr(item, K_name, None), key>>)), at)
    ELSE {Violation(pre \o <<5>>, Err("item_not_str_or_dict", m, 0, key), at)}

\* category q (1-based) of the mapping, under the key `key`
CategoryViolations(cat, q, key) ==
    LET pre == <<5, 2, q>>
        at == At("category", q - 1, 0) IN
    IF cat.t # "dict" THEN {Violation(pre \o <<1>>, Err("category_not_dict", 0, 0, key), at)}
    ELSE When(HasKey(cat, K_weight) /\ ~PositiveNumberPy(GetOr(cat, K_weight, None)),
              pre \o <<2>>, Err("category_weight_not_positive", 0, 0, key), at)
         \cup When(HasKey(cat, K_include_confirmation_locations)
                   /\ GetOr(cat, K_include_confirmation_locations, None).t # "bool",
                   pre \o <<3>>,
                   Err("category_include_confirmation_locations_not_bool", 0, 0, key), at)
         \cup When(~HasKey(cat, K_items), pre \o <<4>>,
                   Err("category_missing_items", 0, 0, key), at)
         \cup (IF ~HasKey(cat, K_items) THEN {}
               ELSE LET its == Get(cat, K_items) IN
                    IF its.t # "list"
                    THEN {Violation(pre \o <<5>>, Err("category_items_not_list", 0, 0, key), at)}
                    ELSE When(its.items = <<>>, pre \o <<6>>,
                              Err("category_no_item", 0, 0, key), at)
                         \cup UNION {ItemViolations(its.items[m], q, m, key) :
                                        m \in 1..Len(its.items)})

\* every violation of the document
Violations(d) ==
    When(MissingInOrder(d) # <<>>, <<1>>,
         Err("missing_fields", 0, 0, StrList(MissingInOrder(d))), At("required_fields", 0, 0))
    \cup When(HasKey(d, K_name) /\ ~NonBlankString(GetOr(d, K_name, None)), <<2>>,
              Err("name_not_nonempty_str", 0, 0, None), At("name", 0, 0))
    \cup (IF ~HasKey(d, K_progression_items) THEN {}
          ELSE LET pi == Get(d, K_progression_items)
                   at == At("progression_items", 0, 0) IN
               IF pi.t # "list"
               THEN {Violation(<<3, 1>>, Err("progression_items_not_list", 0, 0, None), at)}
               ELSE When(pi.items = <<>>, <<3, 2>>,
                         Err("progression_items_empty", 0, 0, None), at)
                    \cup {Violation(<<3, 3, p>>,
                                    Err("progression_item_not_nonempty_str", 0, 0, None), at) :
                            p \in {q \in 1..Len(pi.items) : ~NonBlankString(pi.items[q])}})
    \cup (IF ~HasKey(d, K_chapters) THEN {}
          ELSE LET chs == Get(d, K_chapters)
                   at == At("chapters", 0, 0) IN
               IF chs.t # "list"
               THEN {Violation(<<4, 1>>, Err("chapters_not_list", 0, 0, None), at)}
               ELSE When(chs.items = <<>>, <<4, 2>>, Err("chapters_empty", 0, 0, None), at)
                    \cup UNION {ChapterViolations(chs.items[c], c) : c \in 1..Len(chs.items)})
    \cup (IF ~HasKey(d, K_filler_item_categories) THEN {}
          ELSE LET cats == Get(d, K_filler_item_categories) IN
               IF cats.t # "dict"
               THEN {Violation(<<5, 1>>, Err("filler_item_categories_not_dict", 0, 0, None),
                               At("filler_item_categories", 0, 0))}
               ELSE UNION {CategoryViolations(cats.kv[q].v, q, cats.kv[q].k) :
                              q \in 1..Len(cats.kv)})

\* the earliest violation in the fixed order
FirstViolation(d) ==
    CHOOSE v \in Violations(d) : \A w \in Violations(d) : w = v \/ LexLess(v.pos, w.pos)

\* the place in the fixed order of a position of the walk
Rank(e) ==
    CASE e.at = "required_fields" -> <<1>>
      [] e.at = "name" -> <<2>>
      [] e.at = "progression_items" -> <<3>>
      [] e.at = "chapters" -> <<4, 1>>
      [] e.at = "chapter" -> <<4, 3, e.a + 1, 1>>
      [] e.at = "challenge" -> <<4, 3, e.a + 1, 7, e.b + 1>>
      [] e.at = "goal_warning" -> <<4, 4>>
      [] e.at = "filler_item_categories" -> <<5, 1>>
      [] e.at = "category" -> <<5, 2, e.a + 1, 1>>
      [] e.at = "item" -> <<5, 2, e.a + 1, 7, e.b + 1>>

Terminated == pc \in {"exit", "returned"}

--------------------------------------------------------------------------
(* The claims *)

C2_MissingKeysReportedTogether ==
    (MissingInOrder(doc) # <<>> /\ pc # "required_fields") =>
        /\ pc = "exit"
        /\ exit_code = 1
        /\ stderr = <<Err("missing_fields", 0, 0, StrList(MissingInOrder(doc)))>>
        /\ stdout = <<>>
        /\ evaluated = <<At("required_fields", 0, 0)>>
        /\ ~ENABLED Next

\* C2 witness: two keys are missing, and the name that is there is not a string
C2_Witness ==
    /\ pc = "exit"
    /\ MissingInOrder(doc) = <<K_progression_items, K_chapters>>
    /\ HasKey(doc, K_name)
    /\ ~NonBlankString(Get(doc, K_name))
    /\ HasKey(doc, K_filler_item_categories)

\* the schema of a challenge, a chapter, an item and a category
ChallengeOK(ch) ==
    /\ ch.t = "dict"
    /\ HasKey(ch, K_name)
    /\ NonBlankString(Get(ch, K_name))
    /\ \A p \in 1..Len(ch.kv) :
          \/ (ch.kv[p].k.t = "str" /\ ch.kv[p].k.s = K_name)
          \/ (FlagKey(ch.kv[p].k) /\ ch.kv[p].v.t = "bool")

ChapterOK(chapter) ==
    /\ chapter.t = "dict"
    /\ HasKey(chapter, K_name)
    /\ NonBlankString(Get(chapter, K_name))
    /\ HasKey(chapter, K_challenges)
    /\ Get(chapter, K_challenges).t = "list"
    /\ Get(chapter, K_challenges).items # <<>>
    /\ \A h \in 1..Len(Get(chapter, K_challenges).items) :
          ChallengeOK(Get(chapter, K_challenges).items[h])

ItemOK(item) ==
    \/ NonBlankString(item)
    \/ /\ item.t = "dict"
       /\ HasKey(item, K_name)
       /\ NonBlankString(Get(item, K_name))
       /\ HasKey(item, K_weight) => PositiveNumber(Get(item, K_weight))

CategoryOK(cat) ==
    /\ cat.t = "dict"
    /\ HasKey(cat, K_weight) => PositiveNumber(Get(cat, K_weight))
    /\ HasKey(cat, K_include_confirmation_locations)
          => Get(cat, K_include_confirmation_locations).t = "bool"
    /\ HasKey(cat, K_items)
    /\ Get(cat, K_items).t = "list"
    /\ Get(cat, K_items).items # <<>>
    /\ \A m \in 1..Len(Get(cat, K_items).items) : ItemOK(Get(cat, K_items).items[m])

\* the schema of the part of a document up to its chapters
ChaptersPartOK(d) ==
    /\ HasKey(d, K_name)
    /\ NonBlankString(Get(d, K_name))
    /\ HasKey(d, K_progression_items)
    /\ Get(d, K_progression_items).t = "list"
    /\ Get(d, K_progression_items).items # <<>>
    /\ \A p \in 1..Len(Get(d, K_progression_items).items) :
          NonBlankString(Get(d, K_progression_items).items[p])
    /\ HasKey(d, K_chapters)
    /\ Get(d, K_chapters).t = "list"
    /\ Get(d, K_chapters).items # <<>>
    /\ \A c \in 1..Len(Get(d, K_chapters).items) : ChapterOK(Get(d, K_chapters).items[c])

\* the schema of a document
SchemaOK(d) ==
    /\ ChaptersPartOK(d)
    /\ HasKey(d, K_filler_item_categories) =>
          /\ Get(d, K_filler_item_categories).t = "dict"
          /\ \A q \in 1..Len(Get(d, K_filler_item_categories).kv) :
                CategoryOK(Get(d, K_filler_item_categories).kv[q].v)

\* C3: every document that validate_definition accepts satisfies the schema: name,
\* progression_items, chapters and challenges as the rules say, and in the filler
\* categories every weight a number above zero, a boolean not being a number
C3_AcceptedSatisfiesSchema == pc = "returned" => SchemaOK(doc)

\* the challenges, the progression items and the filler items of a raw document,
\* counted directly
RawChallenges(d) ==
    UNION {{<<c, h>> : h \in 1..Len(Get(Get(d, K_chapters).items[c], K_challenges).items)} :
              c \in 1..Len(Get(d, K_chapters).items)}
RawFillerItems(d) ==
    IF ~HasKey(d, K_filler_item_categories) THEN {}
    ELSE UNION {{<<q, m>> :
                    m \in 1..Len(Get(Get(d, K_filler_item_categories).kv[q].v,
                                     K_items).items)} :
                   q \in 1..Len(Get(d, K_filler_item_categories).kv)}

\* C4: a document that breaks no rule of the validator is walked to the end and
\* returned from with no error printed, and the GameDefinition built from it has as
\* many challenges, progression items and filler items as the raw document
C4_ValidAcceptedAndCounted ==
    Violations(doc) = {} =>
        /\ pc # "exit"
        /\ stderr = <<>>
        /\ exit_code # 1
        /\ pc # "returned" => ENABLED Next
        /\ game # None =>
              /\ total_challenges(game) = Cardinality(RawChallenges(doc))
              /\ Len(game.progression_items) = Len(Get(doc, K_progression_items).items)
              /\ Len(all_filler_items(game)) = Cardinality(RawFillerItems(doc))

\* C4 witness: the model is built from a document with two chapters, three
\* challenges and two categories
C4_Witness ==
    /\ game # None
    /\ Violations(doc) = {}
    /\ Len(game.chapters) = 2
    /\ total_challenges(game) = 3
    /\ Len(game.filler_item_categories) = 2
    /\ Len(all_filler_items(game)) >= 3

\* no challenge of the document has goal = true
NoGoal(d) ==
    \A c \in 1..Len(Get(d, K_chapters).items) :
        \A h \in 1..Len(Get(Get(d, K_chapters).items[c], K_challenges).items) :
            LET ch == Get(Get(d, K_chapters).items[c], K_challenges).items[h] IN
            ~(HasKey(ch, K_goal) /\ Get(ch, K_goal) = Bool(TRUE))

Places(label) == {q \in 1..Len(evaluated) : evaluated[q].at = label}

\* C5: the no-goal warning is printed exactly when the document passes every check
\* up to the last chapter and has no goal challenge; it is printed once, after every
\* challenge of every chapter is walked and before any check of the filler
\* categories, and a document with no other defect is returned from, not exited on
C5_NoGoalWarning ==
    /\ stdout \in {<<>>, <<NoGoalWarning>>}
    /\ stdout # <<>> <=>
          (Places("goal_warning") # {} /\ ChaptersPartOK(doc) /\ NoGoal(doc))
    /\ Terminated /\ ChaptersPartOK(doc) /\ NoGoal(doc) => stdout = <<NoGoalWarning>>
    /\ \A g \in Places("goal_warning") :
          /\ Cardinality(Places("challenge")) = Cardinality(RawChallenges(doc))
          /\ \A q \in Places("chapter") \cup Places("challenge") : q < g
          /\ \A q \in Places("filler_item_categories") \cup Places("category")
                      \cup Places("item") : g < q
    /\ Places("goal_warning") = {} =>
          Places("filler_item_categories") \cup Places("category") \cup Places("item") = {}
    /\ Terminated /\ Violations(doc) = {} /\ NoGoal(doc) =>
          pc = "returned" /\ exit_code # 1 /\ stderr = <<>> /\ stdout = <<NoGoalWarning>>

\* C5 witness: a document with two chapters, no goal challenge and filler categories
\* is returned from with the warning printed
C5_Witness ==
    /\ pc = "returned"
    /\ stdout = <<NoGoalWarning>>
    /\ Len(Get(doc, K_chapters).items) = 2
    /\ HasKey(doc, K_filler_item_categories)
    /\ Places("item") # {}

\* C6: in an accepted document, and in the GameDefinition built from it, the name
\* of every filler item category is a non-empty string
C6_CategoryNamesNonEmpty ==
    /\ (pc = "returned" /\ HasKey(doc, K_filler_item_categories)) =>
          \A q \in 1..Len(Get(doc, K_filler_item_categories).kv) :
              LET key == Get(doc, K_filler_item_categories).kv[q].k IN
              key.t = "str" /\ key.s # <<>>
    /\ game # None =>
          \A q \in 1..Len(game.filler_item_categories) :
              /\ game.filler_item_categories[q].name.t = "str"
              /\ game.filler_item_categories[q].name.s # <<>>

--------------------------------------------------------------------------
(* The claims about the artifacts *)

NumChallenges(g) == Cardinality(UNION {{<<c, h>> : h \in 1..Len(g.chapters[c].challenges)} :
                                          c \in 1..Len(g.chapters)})
\* the place in the locations list of challenge h of chapter c (1-based)
LocationIndex(g, c, h) ==
    Cardinality(UNION {{<<x, y>> : y \in 1..Len(g.chapters[x].challenges)} : x \in 1..(c - 1)})
    + h
\* the items that get a confirmation location, in category order then item order
ConfirmedItems(g) ==
    Flatten([c \in 1..Len(g.filler_item_categories) |->
        IF Truthy(g.filler_item_categories[c].include_confirmation_locations)
        THEN g.filler_item_categories[c].items
        ELSE <<>>])

\* C7: the challenge at chapter index c and challenge index i (0-based) gets the id
\* 1_000_000 + (c+1)*100 + i, and all the ids of the locations artifact are
\* pairwise distinct, whatever the number of chapters and of challenges in a chapter
C7_LocationIdsDistinct ==
    gpc >= 1 =>
        /\ \A c \in 1..Len(game.chapters) :
              \A h \in 1..Len(game.chapters[c].challenges) :
                  locations[LocationIndex(game, c, h)].id = 1000000 + c * 100 + (h - 1)
        /\ \A p, q \in 1..Len(locations) : p # q => locations[p].id # locations[q].id

\* C8 as stated: the k-th confirmation location (0-based) gets the id 3_000_000 + k,
\* whatever the number of challenge locations
C8_ConfirmationIdsFromZero ==
    gpc >= 1 =>
        \A k \in 0..(Len(ConfirmedItems(game)) - 1) :
            locations[NumChallenges(game) + k + 1].id = 3000000 + k

\* C8 amended: the confirmation locations follow the challenge locations in the
\* artifact, one per item of the categories that ask for them, in category order
\* then item order, and the k-th of them (0-based) gets the id
\* 3_000_000 + n + k, n being the number of challenge locations
C8_ConfirmationIdsAfterChallenges ==
    gpc >= 1 =>
        /\ Len(locations) = NumChallenges(game) + Len(ConfirmedItems(game))
        /\ \A k \in 0..(Len(ConfirmedItems(game)) - 1) :
              LET l == locations[NumChallenges(game) + k + 1] IN
              /\ l.id = 3000000 + NumChallenges(game) + k
              /\ l.name = Str(S_Received \o ConfirmedItems(game)[k + 1].name.s)
              /\ l.region = Str(S_Confirmation_Locations)

\* C8 witness: three confirmation locations from two categories follow three
\* challenge locations or more
C8_Witness ==
    /\ gpc >= 1
    /\ Len(game.filler_item_categories) = 2
    /\ Len(ConfirmedItems(game)) = 3
    /\ NumChallenges(game) >= 3
    /\ locations[Len(locations)].id = 3000000 + Len(locations) - 1

\* C9: the ids of the items artifact are 2_000_000, 2_000_001, ... in the order of
\* the entries, with no gap and no repeat: the progression items in definition
\* order, then the filler items in category order then item order, then the
\* default filler entry when there is no category
C9_ItemIdsSequential ==
    gpc >= 2 =>
        LET np == Len(game.progression_items)
            fs == all_filler_items(game)
            d == IF game.filler_item_categories = <<>> THEN 1 ELSE 0 IN
        /\ Len(items) = np + Len(fs) + d
        /\ \A p \in 1..Len(items) : items[p].id = 2000000 + p - 1
        /\ \A p, q \in 1..Len(items) : p # q => items[p].id # items[q].id
        /\ \A p \in 1..np : items[p].name = game.progression_items[p]
        /\ \A k \in 1..Len(fs) : items[np + k].name = fs[k].name
        /\ d = 1 => items[Len(items)].name = Str(S_Filler)

\* C9 witness: two progression items and three filler items in two categories
C9_Witness ==
    /\ gpc >= 2
    /\ Len(game.progression_items) = 2
    /\ Len(game.filler_item_categories) = 2
    /\ Len(items) = 5
    /\ items[5].id = 2000004

\* C10: the region of the chapter at index c >= 1 (0-based) has a requires list
\* that is, for each progression item in definition order, its name c times, and
\* the region of chapter 0 has no requires key; chapter index 2 with the
\* progression items ["K"] requires ["K", "K"]
C10_RegionRequires ==
    gpc = 3 =>
        /\ \A c \in 0..(Len(game.chapters) - 1) :
              LET r == regions[c + 2] IN
              IF c = 0 THEN r.requires = Absent
              ELSE /\ r.requires.t = "list"
                   /\ Len(r.requires.items) = c * Len(game.progression_items)
                   /\ \A q \in 1..Len(r.requires.items) :
                         r.requires.items[q] = game.progression_items[((q - 1) \div c) + 1]
        /\ (Len(game.chapters) >= 3 /\ game.progression_items = <<Str(<<"K">>)>>) =>
              regions[4].requires = List(<<Str(<<"K">>), Str(<<"K">>)>>)

\* C10 witness: the third chapter of a definition with the progression items K, L
\* requires K, K, L, L
C10_Witness ==
    /\ gpc = 3
    /\ Len(game.chapters) = 3
    /\ game.progression_items = <<Str(<<"K">>), Str(<<"L">>)>>
    /\ regions[4].requires =
          List(<<Str(<<"K">>), Str(<<"K">>), Str(<<"L">>), Str(<<"L">>)>>)

\* the number of places of the list xs that hold x
Copies(x, xs) == Cardinality({q \in 1..Len(xs) : xs[q] = x})
\* the requires list of a region, empty when it has no requires key
RequiresOf(r) == IF r.requires = Absent THEN <<>> ELSE r.requires.items
\* the copies of the item named x in the pool of the first np entries of the items
RECURSIVE PoolCount(_, _)
PoolCount(x, np) ==
    IF np = 0 THEN 0
    ELSE (IF items[np].name = x THEN items[np].count ELSE 0) + PoolCount(x, np - 1)

\* C11 as stated: every progression entry has count n (the number of chapters) and
\* the category progression, and its count is at least one more than the number
\* of copies of its name in the requires list of any chapter region
C11_CountCoversRequiresByName ==
    gpc = 3 =>
        \A p \in 1..Len(game.progression_items) :
            /\ items[p].count = Len(game.chapters)
            /\ items[p].category = List(<<Str(S_progression)>>)
            /\ \A c \in 1..Len(game.chapters) :
                  items[p].count >= 1 + Copies(items[p].name, RequiresOf(regions[c + 1]))

\* C11 amended: every progression entry has count n and the category progression;
\* the requires list of the chapter at index c holds c copies of a name for every
\* entry of that name, n - 1 per entry in the last chapter, so that the counts of
\* the entries of a name, taken together, are at least one more than the copies
\* of that name any chapter region requires
C11_PoolCoversRequires ==
    gpc = 3 =>
        LET n == Len(game.chapters)
            np == Len(game.progression_items) IN
        \A p \in 1..np :
            /\ items[p].count = n
            /\ items[p].category = List(<<Str(S_progression)>>)
            /\ \A c \in 1..n :
                  /\ Copies(items[p].name, RequiresOf(regions[c + 1]))
                        = (c - 1) * Copies(items[p].name, game.progression_items)
                  /\ PoolCount(items[p].name, np)
                        >= 1 + Copies(items[p].name, RequiresOf(regions[c + 1]))

\* C11 witness: three chapters and the progression items K, K: the last chapter
\* requires four copies of K and the pool holds six
C11_Witness ==
    /\ gpc = 3
    /\ Len(game.chapters) = 3
    /\ game.progression_items = <<Str(<<"K">>), Str(<<"K">>)>>
    /\ Copies(Str(<<"K">>), RequiresOf(regions[4])) = 4
    /\ PoolCount(Str(<<"K">>), 2) = 6

\* the name "<chapter name>: <challenge name>"
FullName(chapter, challenge) == Str(chapter.name.s \o <<":", " ">> \o challenge.name.s)
\* the region name of the chapter at place c (1-based)
RegionNameOf(g, c) == Str(sanitize_name(g.chapters[c].name.s))

\* C12: the regions artifact is a chain: the first region is Menu, with no
\* locations and an exit to the sanitized name of the first chapter; then comes
\* one region per chapter, in chapter order, named by the sanitized chapter
\* name, with the full names of its challenges in order as locations, and with
\* the sanitized name of the next chapter as its only exit, the last chapter
\* having no exit
C12_RegionsChain ==
    gpc = 3 =>
        LET n == Len(game.chapters) IN
        /\ Len(regions) \in {n + 1, n + 2}
        /\ regions[1].name = Str(S_Menu)
        /\ regions[1].locations = <<>>
        /\ regions[1].exits # <<>>
        /\ regions[1].exits[1] = RegionNameOf(game, 1)
        /\ \A c \in 1..n :
              LET r == regions[c + 1]
                  chapter == game.chapters[c] IN
              /\ r.name = RegionNameOf(game, c)
              /\ Len(r.locations) = Len(chapter.challenges)
              /\ \A h \in 1..Len(chapter.challenges) :
                    r.locations[h] = FullName(chapter, chapter.challenges[h])
              /\ r.exits = IF c < n THEN <<RegionNameOf(game, c + 1)>> ELSE <<>>
        /\ Len(regions) = n + 2 => regions[n + 2].name = Str(S_Confirmation_Locations)

\* C12 witness: three chapters, the first leading to the second, the second to
\* the third, and the third nowhere
C12_Witness ==
    /\ gpc = 3
    /\ Len(game.chapters) = 3
    /\ regions[1].exits[1] = Str(<<"C", "h", "_", "1">>)
    /\ regions[2].exits = <<Str(<<"C", "h", "_", "2">>)>>
    /\ regions[3].exits = <<Str(<<"C", "h", "_", "3">>)>>
    /\ regions[4].exits = <<>>
    /\ Len(regions[3].locations) = 2

HasConfirmation(g) ==
    \E c \in 1..Len(g.filler_item_categories) :
        Truthy(g.filler_item_categories[c].include_confirmation_locations)
\* "Received <item name>" for every item with a confirmation location, in order
ConfirmationNames(g) ==
    [k \in 1..Len(ConfirmedItems(g)) |-> Str(S_Received \o ConfirmedItems(g)[k].name.s)]
IsConfirmationEntry(l) ==
    /\ l.region = Str(S_Confirmation_Locations)
    /\ l.category = List(<<Str(S_confirmation)>>)
\* the names of the confirmation entries of the locations artifact, in order
ConfirmationEntryNames ==
    LET es == SelectSeq(locations, IsConfirmationEntry) IN
    [k \in 1..Len(es) |-> es[k].name]

\* C13: the regions artifact has a region named Confirmation_Locations, and the
\* Menu region an exit to it, exactly when some filler category asks for
\* confirmation locations; that region has no exits and its locations are the
\* names "Received <item name>" of the items of those categories, in category
\* order then item order, which are the names of the confirmation entries of the
\* locations artifact
C13_ConfirmationRegion ==
    gpc = 3 =>
        /\ (\E p \in 1..Len(regions) : regions[p].name = Str(S_Confirmation_Locations))
              <=> HasConfirmation(game)
        /\ (\E e \in 1..Len(regions[1].exits) :
                regions[1].exits[e] = Str(S_Confirmation_Locations))
              <=> HasConfirmation(game)
        /\ \A p \in 1..Len(regions) :
              regions[p].name = Str(S_Confirmation_Locations) =>
                  /\ regions[p].exits = <<>>
                  /\ regions[p].locations = ConfirmationNames(game)
                  /\ regions[p].locations = ConfirmationEntryNames

\* the synthetic default entry: named Filler, of category filler, with no weight
IsDefaultFiller(e) ==
    /\ e.name = Str(S_Filler)
    /\ e.category = List(<<Str(S_filler)>>)
    /\ e.weight = Absent

\* C14: the items artifact has the synthetic entry named Filler exactly when the
\* definition has no filler category; there is then one such entry, the last of
\* the artifact, with count max(1, total_challenges - number of progression
\* items): 3 for five challenges and two progression items, 1 when there are at
\* least as many progression items as challenges
C14_DefaultFiller ==
    gpc >= 2 =>
        LET synthetic == {p \in 1..Len(items) : IsDefaultFiller(items[p])}
            total == NumChallenges(game)
            np == Len(game.progression_items) IN
        /\ synthetic # {} <=> game.filler_item_categories = <<>>
        /\ game.filler_item_categories = <<>> =>
              /\ synthetic = {Len(items)}
              /\ items[Len(items)].count = IF total - np >= 1 THEN total - np ELSE 1
              /\ (total = 5 /\ np = 2) => items[Len(items)].count = 3
              /\ np >= total => items[Len(items)].count = 1

\* C14 witness: five challenges, two progression items and no category
C14_Witness ==
    /\ gpc >= 2
    /\ game.filler_item_categories = <<>>
    /\ NumChallenges(game) = 5
    /\ Len(game.progression_items) = 2
    /\ Len(items) = 3
    /\ items[3].name = Str(S_Filler)
    /\ items[3].count = 3

\* C15: the location entry of a challenge has the category ["goal"] if its goal
\* flag is true, else ["excluded"] if its excluded flag is true, else
\* ["priority"] if its priority flag is true, and no category key when the three
\* flags are false; it never carries more than one tag
C15_CategoryTag ==
    gpc >= 1 =>
        \A c \in 1..Len(game.chapters) :
            \A h \in 1..Len(game.chapters[c].challenges) :
                LET ch == game.chapters[c].challenges[h]
                    l == locations[LocationIndex(game, c, h)] IN
                /\ l.name = FullName(game.chapters[c], ch)
                /\ l.category # Absent => Len(l.category.items) = 1
                /\ l.category =
                      CASE ch.goal = Bool(TRUE) -> List(<<Str(K_goal)>>)
                        [] ch.goal # Bool(TRUE) /\ ch.excluded = Bool(TRUE) ->
                              List(<<Str(K_excluded)>>)
                        [] ch.goal # Bool(TRUE) /\ ch.excluded # Bool(TRUE)
                              /\ ch.priority = Bool(TRUE) -> List(<<Str(K_priority)>>)
                        [] OTHER -> Absent

\* C15 witness: a challenge with goal and excluded both true is tagged goal, and
\* one with excluded and priority both true is tagged excluded
C15_Witness ==
    /\ gpc >= 1
    /\ Len(game.chapters[1].challenges) = 2
    /\ game.chapters[1].challenges[1].goal = Bool(FALSE)
    /\ game.chapters[1].challenges[1].excluded = Bool(TRUE)
    /\ game.chapters[1].challenges[1].priority = Bool(TRUE)
    /\ locations[1].category = List(<<Str(K_excluded)>>)
    /\ game.chapters[1].challenges[2].goal = Bool(TRUE)
    /\ game.chapters[1].challenges[2].excluded = Bool(TRUE)
    /\ locations[2].category = List(<<Str(K_goal)>>)

IsAlnum(c) == c \in Letters \cup Digits

\* C16: sanitizing a sanitized name returns it unchanged, and a sanitized name
\* holds no character other than letters, digits, the underscore and the hyphen
C16_SanitizeIdempotent ==
    /\ resanitized # None => resanitized = sanitized
    /\ sanitized # None =>
          \A p \in 1..Len(sanitized.s) :
              IsAlnum(sanitized.s[p]) \/ sanitized.s[p] \in {"_", "-"}

\* C17: the suggested archive filename of a game is the sanitized game name, as
\* _sanitize_name gives it, followed by ".apworld"
C17_SuggestedNameIsSanitized ==
    (sanitized # None /\ suggested # None /\ Strip(raw_name) # <<>>) =>
        suggested = Str(sanitized.s \o S_apworld)

\* the places of the log that hold a request
RequestPlaces == {p \in 1..Len(fetch_log) : fetch_log[p].e = "request"}
\* p and q hold two consecutive requests
Consecutive(p, q) ==
    /\ p \in RequestPlaces
    /\ q \in RequestPlaces
    /\ p < q
    /\ \A r \in (p + 1)..(q - 1) : r \notin RequestPlaces

\* C18: between two consecutive attempts of a fetch operation there is a sleep
\* of 2^attempt seconds, attempt being the 0-based number of the earlier one
\* (1 s after the first, 2 s after the second), whether the earlier attempt
\* ended in an exception or in a status other than 200
C18_BackoffBetweenAttempts ==
    \A p, q \in 1..Len(fetch_log) :
        Consecutive(p, q) =>
            \E r \in (p + 1)..(q - 1) :
                fetch_log[r] = Event("sleep", 2 ^ fetch_log[p].n, "")

FetchTerminated == fpc \in {"returned", "exited"}
\* at most MAX_RETRIES requests; a request that succeeds is the last one and the
\* operation has returned; after the last allowed request the operation has
\* returned or has exited with status 1
AttemptsBounded ==
    /\ Cardinality(RequestPlaces) <= MAX_RETRIES
    /\ \A p \in RequestPlaces :
          fetch_log[p].x = "ok" =>
              /\ fpc = "returned"
              /\ \A q \in RequestPlaces : q <= p
    /\ Cardinality(RequestPlaces) = MAX_RETRIES => FetchTerminated
    /\ fpc = "exited" => fetch_log[Len(fetch_log)] = Event("exit", 1, "")
    /\ fpc = "returned" => \A p \in 1..Len(fetch_log) : fetch_log[p].e # "exit"

\* C19: whatever the outcomes of the requests, a fetch operation makes at most
\* MAX_RETRIES = 3 requests and then terminates, by returning or by exiting
\* with status 1, and makes no request after one that succeeded
C19_BoundedAttemptsThenTerminates == []AttemptsBounded /\ <>FetchTerminated

\* C19 witness: a status other than 200, then two exceptions with a sleep of two
\* seconds between them, and the exit
C19_Witness ==
    /\ fpc = "exited"
    /\ Cardinality(RequestPlaces) = MAX_RETRIES
    /\ fetch_log[1] = Event("request", 0, "status")
    /\ fetch_log[3] = Event("request", 1, "exception")
    /\ fetch_log[4] = Event("sleep", 2, "")
    /\ fetch_log[5] = Event("request", 2, "exception")

--------------------------------------------------------------------------
\* C20: in the archive create_apworld returns, items.json, locations.json
\* and regions.json are at data/<name> and the hooks file is at the root,
\* each with the generated content whether or not the base archive has a
\* file at that path, and every file of the base archive at a path that no
\* generator writes to is there with its base content.
DataPath(name) == <<S_data, name>>
ArtifactPaths ==
    [locations |-> DataPath(S_locations_json), items |-> DataPath(S_items_json),
     regions |-> DataPath(S_regions_json), hooks |-> <<S_hooks_py>>]
C20_ArchiveOverlay ==
    ppc.at = "returned" =>
        LET out == output_apworld.files
            base == base_apworld.files
            produced == {ArtifactPaths[g] : g \in DOMAIN ArtifactPaths}
        IN  /\ output_apworld # Absent
            /\ \A g \in DOMAIN ArtifactPaths :
                   /\ ArtifactPaths[g] \in DOMAIN out
                   /\ out[ArtifactPaths[g]] = g
            /\ \A q \in DOMAIN base \ produced :
                   q \in DOMAIN out /\ out[q] = base[q]

\* an archive was built over a base archive that has a file where a data
\* file is generated, one where the hooks file is and one elsewhere
C20_Witness ==
    /\ ppc.at = "returned"
    /\ DataPath(S_items_json) \in DOMAIN base_apworld.files
    /\ base_apworld.files[DataPath(S_items_json)] = "base"
    /\ <<S_hooks_py>> \in DOMAIN base_apworld.files
    /\ <<S_items_json>> \in DOMAIN base_apworld.files
    /\ output_apworld.files[<<S_items_json>>] = "items"
    /\ output_apworld.files[DataPath(S_items_json)] = "items"

--------------------------------------------------------------------------
\* C21: whenever download_base_apworld returns the path, a file is there and
\* it holds the complete body of a download with status 200 that was
\* streamed to the end (so neither three other statuses nor an interrupted
\* download make this call or a later one return the path).
C21_ReturnedPathIsCompleteDownload ==
    dpc = "returned" =>
        /\ dest_file # Absent
        /\ dest_file.chunks = BodyChunks

--------------------------------------------------------------------------
\* C22: the locations and the regions artifacts agree: the region field of
\* every entry of the locations artifact is the name of a region whose
\* locations list has the name of the entry; every name of the locations list
\* of a region is the name of an entry of the locations artifact whose region
\* field is the name of that region; every exit of every region is the name
\* of a region of the artifact.
C22_CrossArtifactConsistency ==
    gpc = 3 =>
        /\ \A l \in 1..Len(locations) :
              \E r \in 1..Len(regions) :
                  /\ regions[r].name = locations[l].region
                  /\ \E k \in 1..Len(regions[r].locations) :
                        regions[r].locations[k] = locations[l].name
        /\ \A r \in 1..Len(regions) :
              \A k \in 1..Len(regions[r].locations) :
                  \E l \in 1..Len(locations) :
                      /\ locations[l].name = regions[r].locations[k]
                      /\ locations[l].region = regions[r].name
        /\ \A r \in 1..Len(regions) :
              \A e \in 1..Len(regions[r].exits) :
                  \E q \in 1..Len(regions) : regions[q].name = regions[r].exits[e]

\* C22 witness: two chapters whose names are changed by the sanitizer, each
\* with a challenge, and a category with confirmation locations
C22_Witness ==
    /\ gpc = 3
    /\ Len(game.chapters) >= 2
    /\ \A c \in 1..2 : /\ game.chapters[c].challenges # <<>>
                       /\ RegionNameOf(game, c) # game.chapters[c].name
    /\ HasConfirmation(game)
    /\ ConfirmedItems(game) # <<>>
    /\ Len(regions) = Len(game.chapters) + 2
    /\ Len(regions[1].exits) = 2

--------------------------------------------------------------------------
\* C23: for an accepted definition the names of the regions of the regions
\* artifact are non-empty and pairwise distinct; in particular no chapter
\* region has an empty name, the name of another chapter's region, or the
\* name Menu or Confirmation_Locations.
C23_RegionNamesDistinct ==
    gpc = 3 =>
        /\ \A r \in 1..Len(regions) : regions[r].name.s # <<>>
        /\ \A r, q \in 1..Len(regions) : r # q => regions[r].name # regions[q].name
        /\ \A c \in 1..Len(game.chapters) :
              regions[c + 1].name \notin {Str(S_Menu), Str(S_Confirmation_Locations)}

====
